---- MODULE Spec2Model ----
(***************************************************************************)
(* Model of fetcher-mcp: the fetch_urls batch orchestrator with its page   *)
(* fetch unit (WebContentProcessor), its option derivation and content     *)
(* pipeline, the BrowserService session manager with the close_browser     *)
(* tool, and the parameter check of the fetch_url handler.                 *)
(*                                                                         *)
(* Strings are modelled as sequences of tokens: a token stands for a       *)
(* literal piece of text or for a value interpolated into a template.      *)
(* An optional field (error?: string) is a sequence of length 0 or 1.      *)
(***************************************************************************)
EXTENDS Integers, Sequences, FiniteSets, TLC

\* ------------------------------------------------------------------ bounds
MaxUrls == 2

Urls == {"a", "b"}

\* ------------------------------------------------------- thrown values
\* What a rejected Playwright / JSDOM call throws: an Error with a message,
\* or a value that is not an Error (the catch at lines 380-382 tells them apart).
Err(m) == [isError |-> TRUE, message |-> m]
NonErr == [isError |-> FALSE, message |-> ""]
NoThrow == [isError |-> FALSE, message |-> "<nothing thrown>"]

TimeoutMsg == "Timeout 30000ms exceeded"
NetMsg == "net::ERR_NAME_NOT_RESOLVED"
ClosedMsg == "Target page, context or browser has been closed"
NavTimeoutMsg == "Navigation timeout"

GotoThrown == {Err(TimeoutMsg), Err(NetMsg)}
PageThrown == {Err(ClosedMsg)}
PipelineThrown == {Err("Invalid URL"), NonErr}

\* ------------------------------------------------------- page documents
EmptyHtml == <<>>
DocArticle == <<"<nav>", "menu", "</nav>", "<p>", "text", "</p>">>
DocPlain == <<"<div>", "x", "</div>">>
Docs == {EmptyHtml, DocArticle, DocPlain}

TitleOf(url) == "title-of-" \o url

\* ------------------------------------------------------ content pipeline
Tags == {"<nav>", "</nav>", "<p>", "</p>", "<div>", "</div>"}

IsText(tok) == tok \notin Tags

\* Readability(dom).parse(): the article's content, or null (here <<>>) when
\* the document has no article; an article is the <p> ... </p> run.
FirstAt(s, tok) == CHOOSE i \in 1..Len(s) : s[i] = tok /\ \A j \in 1..(i - 1) : s[j] # tok

Readability(html) ==
  IF (\E i \in 1..Len(html) : html[i] = "<p>") /\ (\E i \in 1..Len(html) : html[i] = "</p>")
  THEN <<SubSeq(html, FirstAt(html, "<p>"), FirstAt(html, "</p>"))>>
  ELSE <<>>

\* TurndownService.turndown: markup in, text without tags out.
Turndown(content) == SelectSeq(content, IsText)

processContentNoFallback(html, options) ==
  LET article == Readability(html)
      contentToProcess ==
        IF options.extractContent
        THEN (IF article # <<>> THEN article[1] ELSE <<>>)
        ELSE html
      converted ==
        IF ~options.returnHtml THEN Turndown(contentToProcess) ELSE contentToProcess
  IN  IF options.maxLength > 0 /\ Len(converted) > options.maxLength
      THEN SubSeq(converted, 1, options.maxLength)
      ELSE converted

processContentTruncatesFirst(html, options) ==
  LET cut == IF options.maxLength > 0 /\ Len(html) > options.maxLength
             THEN SubSeq(html, 1, options.maxLength)
             ELSE html
      article == Readability(cut)
      contentToProcess ==
        IF options.extractContent /\ article # <<>> THEN article[1] ELSE cut
  IN  IF ~options.returnHtml THEN Turndown(contentToProcess) ELSE contentToProcess

\* WebContentProcessor.processContent: extraction, conversion, truncation.
processContent(html, options) ==
  LET article == Readability(html)
      contentToProcess ==
        IF options.extractContent /\ article # <<>> THEN article[1] ELSE html
      converted ==
        IF ~options.returnHtml THEN Turndown(contentToProcess) ELSE contentToProcess
  IN  IF options.maxLength > 0 /\ Len(converted) > options.maxLength
      THEN SubSeq(converted, 1, options.maxLength)
      ELSE converted

\* ------------------------------------------------------- page fetch unit
\* The three FetchResult literals of processPageContent.
EmptyContentResultNoError(url) ==
  [success |-> FALSE,
   content |-> <<"Title: Error\nURL: ", url,
                 "\nContent:\n\n<error>Failed to retrieve web page content: ",
                 "Browser returned empty content", "</error>">>,
   error |-> <<>>]

EmptyContentResult(url) ==
  [success |-> FALSE,
   content |-> <<"Title: Error\nURL: ", url,
                 "\nContent:\n\n<error>Failed to retrieve web page content: ",
                 "Browser returned empty content", "</error>">>,
   error |-> <<"Browser returned empty content">>]

SuccessResultNoUrl(pageTitle, url, processedContent) ==
  [success |-> TRUE,
   content |-> <<"Title: ", pageTitle, "\nContent:\n\n">> \o processedContent,
   error |-> <<>>]

SuccessResult(pageTitle, url, processedContent) ==
  [success |-> TRUE,
   content |-> <<"Title: ", pageTitle, "\nURL: ", url, "\nContent:\n\n">>
               \o processedContent,
   error |-> <<>>]

ErrorResult(url, errorMessage) ==
  [success |-> FALSE,
   content |-> <<"Title: Error\nURL: ", url,
                 "\nContent:\n\n<error>Failed to retrieve web page content: ",
                 errorMessage, "</error>">>,
   error |-> <<errorMessage>>]

\* What the unit hands to its caller: a returned FetchResult, or a raise.
Returned(result) == [raised |-> FALSE, result |-> result]
Raised(thrown) ==
  [raised |-> TRUE, result |-> ErrorResult("", thrown.message)]

UnitCatchRethrows(url, thrown) == Raised(thrown)

\* catch (error) at the unit boundary.
UnitCatch(url, thrown) ==
  LET errorMessage == IF thrown.isError THEN thrown.message ELSE "Unknown error"
  IN  Returned(ErrorResult(url, errorMessage))

\* After page.content() resolved with html: the empty check, the pipeline
\* (pipeThrown # NoThrow: the pipeline threw that) and the success result.
UnitFinish(url, pageTitle, html, options, pipeThrown) ==
  IF html = EmptyHtml THEN Returned(EmptyContentResult(url))
  ELSE IF pipeThrown # NoThrow THEN UnitCatch(url, pipeThrown)
  ELSE Returned(SuccessResult(pageTitle, url, processContent(html, options)))

\* ------------------------------------------------------------ fetch_urls
VARIABLES
  isDebugMode,  \* process.argv.includes("--debug"), fixed at module load
  bPc,          \* where the fetchUrls call stands
  bArgs,        \* its argument object
  bOptions,     \* the FetchOptions derived from it
  bBrowser,     \* its local `browser`: "none" (null), "open", "closed"
  bRaise,       \* the error the call raises (pending while finally runs)
  bOutput,      \* the text it returns
  tPc,          \* per-URL task: position in urls.map's async callback
  tPage,        \* per-URL task: its page, "none", "open", "closed"
  tOut,         \* per-URL task: what processPageContent handed back
  tResult,      \* per-URL task: the value { index, ...result } it fulfils with
  tFault,       \* per-URL task: the step that failed, and what it threw
  tNav,         \* per-URL task: how the navigation race of the running
                \* processPageContent call ended (a local of that call)
  reordered     \* some task settled while a task of an earlier URL had not

batchVars == <<isDebugMode, bPc, bArgs, bOptions, bBrowser, bRaise, bOutput,
               tPc, tPage, tOut, tResult, tFault, tNav, reordered>>

\* The state of the BrowserService session manager and of its callers.
VARIABLES
  instance,      \* BrowserService.instance: 0 (null) or a service
  svcCount,      \* BrowserService objects constructed so far
  svcBrowser,    \* per service: this.browser, 0 (null) or a browser
  svcContext,    \* per service: this.context (and this.viewport), 0 or a context
  launched,      \* browsers launched so far (browser b is the b-th launch)
  openBrowsers,  \* the launched browsers not yet closed
  ctxCount,      \* contexts created so far
  ctxOwner,      \* per context: the browser it was created in
  ctxState,      \* per context: its current session state
  storageFile,   \* the file at STORAGE_STATE_PATH: "absent" or a session state
  cPc,           \* per caller: the await its running call is suspended at
  cSvc,          \* per caller: `this` of its running call
  cOn,           \* per caller: the object its pending await was called on
  lastClose,     \* the text close_browser returned, when it returned last and
                 \* no other call was made since; "none" otherwise
  staleBrowsers, \* browsers that existed when some cleanup() completed
  staleContexts, \* contexts that existed when some cleanup() completed
  svcDebug,      \* per service: this.isDebugMode
  svcMedia,      \* per service: this.options.disableMedia
  brHeadless,    \* per browser: the headless flag it was launched with
  ctxRoute,      \* per context: "none" until getOrCreateContext has set it up
                 \* and returned it, then "blocking" (the route that aborts
                 \* media requests is installed) or "plain"
  cOpts,         \* per caller: the options of the tool call it is running,
                 \* as it passed them to createOrGetInstance
  cRead          \* per caller: the storage file as it was when its pending
                 \* browser.newContext was called ("" with none pending)

sessionVars == <<instance, svcCount, svcBrowser, svcContext, launched, openBrowsers,
                 ctxCount, ctxOwner, ctxState, storageFile, cPc, cSvc, cOn,
                 lastClose, staleBrowsers, staleContexts, svcDebug, svcMedia,
                 brHeadless, ctxRoute, cOpts, cRead>>

\* The fetch_url handler of the server's request handler (src/src/index.ts).
VARIABLES
  uPc,       \* where the fetch_url call stands
  uArg,      \* request.params.arguments?.url
  uBrowser,  \* its `browser` local: "none", "open", "closed"
  uPage      \* its `page` local: "none", "open", "closed"

toolVars == <<uPc, uArg, uBrowser, uPage>>

\* One application of WebContentProcessor.processContent.
VARIABLES
  pHtml,     \* its html argument
  pOptions,  \* this.options
  pOut,      \* what it returned (<<"<not called>">> before the call)
  pCalls,    \* how often it called Readability.parse and turndown
  pUrl,      \* the url of the processPageContent call around it
  pFault,    \* what that processPageContent call saw thrown
  pUnit      \* what that processPageContent call handed back

pipeVars == <<pHtml, pOptions, pOut, pCalls, pUrl, pFault, pUnit>>

\* One call of BrowserService.closePage(page).
VARIABLES
  kPc,       \* where the call stands: "idle", "closing", "returned", "raised"
  kPage,     \* its page argument: "null", "open", "closed"
  kLogged    \* whether it logged "Failed to close page"

closeVars == <<kPc, kPage, kLogged>>

\* The launch and context configuration of one browser of the BrowserService.
VARIABLES
  wPc,         \* "none", "launched" (createBrowser ran), "context" (createContext ran)
  wWindow,     \* the --window-size launch argument, as <<width, height>>
  wViewport,   \* the viewport option of browser.newContext
  wUserAgent,  \* the index of the userAgent option of browser.newContext
  wScale       \* the deviceScaleFactor option of browser.newContext

viewVars == <<wPc, wWindow, wViewport, wUserAgent, wScale>>

\* The navigation race of one processPageContent call (lines 316-348).
VARIABLES
  rPc,         \* where the call stands: "race", "title", "returned", "raised"
  rNav,        \* navigationPromise: "pending", "fulfilled", "rejected"
  rTimer,      \* timeoutPromise: "pending", "rejected"
  rWinner,     \* how the race promise settled: "none", "navigated", "timer", "rejected"
  rResult,     \* what the call handed back
  rUnhandled   \* whether a promise rejected with no rejection handler on it

raceVars == <<rPc, rNav, rTimer, rWinner, rResult, rUnhandled>>

\* The fetch_urls case of the server's request handler (src/src/index.ts).
VARIABLES
  hPc,         \* where the handler stands
  hUrls,       \* its urls argument
  hBrowser,    \* its `browser`: "none", "open", "closed"
  fetchTasks,  \* per url: where the task stands
  hPage,       \* per url: the task's page, "none", "open", "closed"
  hResults      \* the shared results array, in the order of the pushes

handlerVars == <<hPc, hUrls, hBrowser, fetchTasks, hPage, hResults>>

vars == <<batchVars, sessionVars, toolVars, pipeVars, closeVars, viewVars, raceVars,
          handlerVars>>

nonBatchVars == <<sessionVars, toolVars, pipeVars, closeVars, viewVars, raceVars,
                  handlerVars>>
nonSessionVars == <<batchVars, toolVars, pipeVars, closeVars, viewVars, raceVars,
                    handlerVars>>
nonToolVars == <<batchVars, sessionVars, pipeVars, closeVars, viewVars, raceVars,
                 handlerVars>>
nonPipeVars == <<batchVars, sessionVars, toolVars, closeVars, viewVars, raceVars,
                 handlerVars>>
nonCloseVars == <<batchVars, sessionVars, toolVars, pipeVars, viewVars, raceVars,
                  handlerVars>>
nonViewVars == <<batchVars, sessionVars, toolVars, pipeVars, closeVars, raceVars,
                 handlerVars>>
nonRaceVars == <<batchVars, sessionVars, toolVars, pipeVars, closeVars, viewVars,
                 handlerVars>>
nonHandlerVars == <<batchVars, sessionVars, toolVars, pipeVars, closeVars, viewVars,
                    raceVars>>


Tasks == 1..MaxUrls

UrlLists == UNION {[1..n -> Urls] : n \in 0..MaxUrls}

\* args.urls is an array, absent, or some other value (a string, a number).
UrlsArgs ==
  {[kind |-> "array", list |-> l] : l \in UrlLists}
    \cup {[kind |-> "missing", list |-> <<>>], [kind |-> "other", list |-> <<>>]}

\* The values an argument of a tool call can have (JSON values): undefined
\* (absent), null, a boolean, a number or a string.
JsUndefined == [kind |-> "undefined", b |-> FALSE, n |-> 0, s |-> ""]
JsNull == [kind |-> "null", b |-> FALSE, n |-> 0, s |-> ""]
JsBool(b) == [kind |-> "boolean", b |-> b, n |-> 0, s |-> ""]
JsNum(n) == [kind |-> "number", b |-> FALSE, n |-> n, s |-> ""]
JsStr(s) == [kind |-> "string", b |-> FALSE, n |-> 0, s |-> s]

\* A JavaScript number that is NaN, or an integer.
NaN == [nan |-> TRUE, n |-> 0]
Num(n) == [nan |-> FALSE, n |-> n]

\* Number(v): NaN for undefined and for text that is no numeral, 0 for null,
\* false and the empty string, 1 for true.
ToNumber(v) ==
  CASE v.kind = "undefined" -> NaN
    [] v.kind = "null" -> Num(0)
    [] v.kind = "boolean" -> Num(IF v.b THEN 1 ELSE 0)
    [] v.kind = "number" -> Num(v.n)
    [] v.kind = "string" ->
         IF v.s = "" THEN Num(0)
         ELSE IF v.s = "5000" THEN Num(5000)
         ELSE IF v.s = "-7" THEN Num(-7)
         ELSE NaN

\* v in a condition: undefined, null, false, 0 and "" are falsy.
Truthy(v) ==
  CASE v.kind = "undefined" -> FALSE
    [] v.kind = "null" -> FALSE
    [] v.kind = "boolean" -> v.b
    [] v.kind = "number" -> v.n # 0
    [] v.kind = "string" -> v.s # ""

\* String(v)
JsToString(v) ==
  CASE v.kind = "undefined" -> "undefined"
    [] v.kind = "null" -> "null"
    [] v.kind = "boolean" -> (IF v.b THEN "true" ELSE "false")
    [] v.kind = "number" -> ToString(v.n)
    [] v.kind = "string" -> v.s

\* Number(v) || d
NumberOr(v, d) ==
  LET x == ToNumber(v) IN IF x.nan \/ x.n = 0 THEN d ELSE x.n

\* String(v || d)
StringOr(v, d) == IF Truthy(v) THEN JsToString(v) ELSE d

IsTrueLoose(v) == Truthy(v)

\* v !== false and v === true
NotFalse(v) == ~(v.kind = "boolean" /\ ~v.b)
IsTrue(v) == v.kind = "boolean" /\ v.b

\* The arguments of a fetch_urls call; every option may be absent.
Args(urls, waitForNavigation) ==
  [urls |-> urls,
   timeout |-> JsUndefined,
   waitUntil |-> JsUndefined,
   extractContent |-> JsUndefined,
   maxLength |-> JsUndefined,
   returnHtml |-> JsUndefined,
   waitForNavigation |-> waitForNavigation,
   navigationTimeout |-> JsUndefined,
   disableMedia |-> JsUndefined,
   debug |-> JsUndefined]

\* The calls of the batch model: any urls argument, waitForNavigation absent
\* or true, every other option absent.
ArgsSet == {Args(urls, w) : urls \in UrlsArgs, w \in {JsUndefined, JsBool(TRUE)}}

NoArgs == Args([kind |-> "missing", list |-> <<>>], JsUndefined)

\* const options: FetchOptions = { ... }
Options(args) ==
  [timeout |-> NumberOr(args.timeout, 30000),
   waitUntil |-> StringOr(args.waitUntil, "load"),
   extractContent |-> NotFalse(args.extractContent),
   maxLength |-> NumberOr(args.maxLength, 0),
   returnHtml |-> IsTrue(args.returnHtml),
   waitForNavigation |-> IsTrue(args.waitForNavigation),
   navigationTimeout |-> NumberOr(args.navigationTimeout, 10000),
   disableMedia |-> NotFalse(args.disableMedia)]

\* !urls || !Array.isArray(urls) || urls.length === 0
InvalidUrls(args) == args.urls.kind # "array" \/ Len(args.urls.list) = 0

NoResult == [index |-> -1, success |-> FALSE, content |-> <<>>, error |-> <<>>]
NoOut == Returned([success |-> FALSE, content |-> <<>>, error |-> <<>>])
NoFault == [step |-> "none", thrown |-> NoThrow]

N == Len(bArgs.urls.list)
UrlAt(i) == bArgs.urls.list[i]

BatchInit ==
  /\ isDebugMode \in BOOLEAN
  /\ bPc = "idle"
  /\ bArgs = NoArgs
  /\ bOptions = Options(NoArgs)
  /\ bBrowser = "none"
  /\ bRaise = "none"
  /\ bOutput = <<>>
  /\ tPc = [i \in Tasks |-> "unused"]
  /\ tPage = [i \in Tasks |-> "none"]
  /\ tOut = [i \in Tasks |-> NoOut]
  /\ tResult = [i \in Tasks |-> NoResult]
  /\ tFault = [i \in Tasks |-> NoFault]
  /\ tNav = [i \in Tasks |-> "none"]
  /\ reordered = FALSE

\* results.sort((a, b) => (a.index || 0) - (b.index || 0)): a stable sort.
\* (an absent index is written -1 here)
IndexKey(r) == IF r.index < 0 THEN 0 ELSE r.index

CompareReversed(a, b) == IndexKey(b) - IndexKey(a)

Compare(a, b) == IndexKey(a) - IndexKey(b)

RECURSIVE InsertStable(_, _)
InsertStable(x, s) ==
  IF s = <<>> THEN <<x>>
  ELSE IF Compare(s[Len(s)], x) <= 0 THEN Append(s, x)
  ELSE Append(InsertStable(x, SubSeq(s, 1, Len(s) - 1)), s[Len(s)])

RECURSIVE SortByIndex(_)
SortByIndex(results) ==
  IF results = <<>> THEN <<>>
  ELSE InsertStable(results[Len(results)], SortByIndex(SubSeq(results, 1, Len(results) - 1)))

\* `[webpage ${i + 1} begin]\n${result.content}\n[webpage ${i + 1} end]`
Segment(k, content) ==
  <<"[webpage ", ToString(k), " begin]\n">> \o content
    \o <<"\n[webpage ", ToString(k), " end]">>

RECURSIVE JoinSegments(_, _)
JoinSegments(results, k) ==
  IF k > Len(results) THEN <<>>
  ELSE Segment(k, results[k].content)
         \o (IF k < Len(results) THEN <<"\n\n">> ELSE <<>>)
         \o JoinSegments(results, k + 1)

CombinedResults(results) == JoinSegments(SortByIndex(results), 1)

\* The finally block of fetchUrls (lines 600-606), entered with the error
\* that is on its way out ("none": the return statement was reached).
Finally(cause) ==
  /\ bRaise' = cause
  /\ bPc' = IF ~isDebugMode /\ bBrowser # "none" THEN "close"
            ELSE IF cause = "none" THEN "returned" ELSE "raised"

\* fetchUrls up to its first await.
FetchUrlsCall ==
  /\ bPc = "idle"
  /\ \E args \in ArgsSet :
       /\ bArgs' = args
       /\ IF InvalidUrls(args)
          THEN /\ bPc' = "raised"
               /\ bRaise' = "param"
               /\ UNCHANGED bOptions
          ELSE /\ bPc' = "launch"
               /\ bOptions' = Options(args)
               /\ UNCHANGED bRaise
  /\ UNCHANGED <<isDebugMode, bBrowser, bOutput, tPc, tPage, tOut, tResult, tFault,
                 tNav, reordered>>
  /\ UNCHANGED nonBatchVars

\* browser = await chromium.launch(...)
LaunchDone ==
  /\ bPc = "launch"
  /\ \/ /\ bBrowser' = "open"
        /\ bPc' = "context"
        /\ UNCHANGED bRaise
     \/ /\ Finally("launch")
        /\ UNCHANGED bBrowser
  /\ UNCHANGED <<isDebugMode, bArgs, bOptions, bOutput, tPc, tPage, tOut, tResult,
                 tFault, tNav, reordered>>
  /\ UNCHANGED nonBatchVars

\* const context = await browser.newContext(...)
ContextDone ==
  /\ bPc = "context"
  /\ \/ /\ bPc' = "route"
        /\ UNCHANGED bRaise
     \/ Finally("context")
  /\ UNCHANGED <<isDebugMode, bArgs, bOptions, bBrowser, bOutput, tPc, tPage, tOut,
                 tResult, tFault, tNav, reordered>>
  /\ UNCHANGED nonBatchVars

\* await context.route(...); then urls.map(...) starts every task, each of
\* which runs to its `await context.newPage()`.
RouteDone ==
  /\ bPc = "route"
  /\ \/ /\ bPc' = "all"
        /\ tPc' = [i \in Tasks |-> IF i <= N THEN "newPage" ELSE "unused"]
        /\ UNCHANGED bRaise
     \/ /\ Finally("route")
        /\ UNCHANGED tPc
  /\ UNCHANGED <<isDebugMode, bArgs, bOptions, bBrowser, bOutput, tPage, tOut,
                 tResult, tFault, tNav, reordered>>
  /\ UNCHANGED nonBatchVars

\* The continuation of `await Promise.all(...)`, run in the microtasks that
\* follow a task's settling: Promise.all rejects with the first rejection and
\* fulfils, with the values in the order of the input, once every task has.
AllContinuation(tpc, tres) ==
  IF bPc # "all" THEN UNCHANGED <<bPc, bRaise, bOutput>>
  ELSE IF \E j \in 1..N : tpc[j] = "rejected"
  THEN Finally("newPage") /\ UNCHANGED bOutput
  ELSE IF \A j \in 1..N : tpc[j] = "settled"
  THEN /\ bOutput' = CombinedResults([j \in 1..N |-> tres[j]])
       /\ Finally("none")
  ELSE UNCHANGED <<bPc, bRaise, bOutput>>

\* The task's promise settles: it fulfils with { index, ...result }, or it
\* rejects when what it awaited raised.
Settle(i, out) ==
  LET tpc == [tPc EXCEPT ![i] = IF out.raised THEN "rejected" ELSE "settled"]
  IN  /\ tPc' = tpc
      /\ reordered' = (reordered \/ \E j \in 1..(i - 1) : tPc[j] \notin {"settled", "rejected"})
      /\ AllContinuation(tpc, tResult')

\* processPageContent handed `out` back to the task: `return { index, ...result }`
\* and the finally of lines 582-588.
UnitEnds(i, out) ==
  /\ tOut' = [tOut EXCEPT ![i] = out]
  /\ tNav' = [tNav EXCEPT ![i] = "none"]
  /\ tResult' = [tResult EXCEPT ![i] =
                   IF out.raised THEN NoResult
                   ELSE [index |-> i - 1, success |-> out.result.success,
                         content |-> out.result.content, error |-> out.result.error]]
  /\ IF ~isDebugMode
     THEN /\ tPc' = [tPc EXCEPT ![i] = "closePage"]
          /\ UNCHANGED <<bPc, bRaise, bOutput, reordered>>
     ELSE Settle(i, out)

SetFault(i, step, thrown) ==
  tFault' = [tFault EXCEPT ![i] = [step |-> step, thrown |-> thrown]]

\* The `page` constant of task i: `const page = await context.newPage()` is
\* declared inside the arrow function given to urls.map, so every task has a
\* binding of its own, holding the page its own newPage() call returned.
PageOfShared(i) == 1

PageOf(i) == i

\* const page = await context.newPage(); then processPageContent runs to its
\* first await: page.setDefaultTimeout(...) and the call of page.goto(...).
TaskNewPage(i) ==
  /\ tPc[i] = "newPage"
  /\ \/ /\ bBrowser = "open"
        /\ tPage' = [tPage EXCEPT ![PageOf(i)] = "open"]
        /\ \/ /\ tPc' = [tPc EXCEPT ![i] = "goto"]
              /\ UNCHANGED <<bPc, bRaise, bOutput, tOut, tResult, tFault, tNav, reordered>>
           \/ \E th \in PageThrown :
                /\ SetFault(i, "setTimeout", th)
                /\ UnitEnds(i, UnitCatch(UrlAt(i), th))
     \/ \E th \in PageThrown :
          /\ SetFault(i, "newPage", th)
          /\ UNCHANGED <<tPage, tOut, tResult, tNav>>
          /\ Settle(i, Raised(th))
  /\ UNCHANGED <<isDebugMode, bArgs, bOptions, bBrowser>>
  /\ UNCHANGED nonBatchVars

\* await page.goto(url, { timeout, waitUntil })
TaskGoto(i) ==
  /\ tPc[i] = "goto"
  /\ \/ /\ bBrowser = "open"
        /\ tPc' = [tPc EXCEPT ![i] =
                     IF bOptions.waitForNavigation THEN "waitNav" ELSE "title"]
        /\ UNCHANGED <<bPc, bRaise, bOutput, tOut, tResult, tFault, tNav, reordered>>
     \/ \E th \in (IF bBrowser = "open" THEN GotoThrown ELSE PageThrown) :
          /\ SetFault(i, "goto", th)
          /\ UnitEnds(i, UnitCatch(UrlAt(i), th))
  /\ UNCHANGED <<isDebugMode, bArgs, bOptions, bBrowser, tPage>>
  /\ UNCHANGED nonBatchVars

AfterRaceRethrows(how) == IF how = "navigated" THEN "title" ELSE "caught"

AfterRaceWaitsOn(how) == IF how = "navigated" THEN "title" ELSE "waitNav"

\* Where processPageContent continues once the race has settled: the .then
\* handler logs, the .catch handler logs the rejection and swallows it (the
\* surrounding try/catch does the same for a throw of the handlers), and the
\* title read follows in every case.
AfterRace(how) == "title"

\* await Promise.race([navigationPromise, timeoutPromise]).then(...).catch(...):
\* a navigation is seen, the timer rejects first, or the navigation wait
\* rejects first; the .catch swallows either rejection.
TaskWaitNav(i) ==
  /\ tPc[i] = "waitNav"
  /\ \E how \in {"navigated", "timer", "rejected"} :
       /\ how = "navigated" => bBrowser = "open"
       /\ tNav' = [tNav EXCEPT ![i] = how]
       /\ tPc' = [tPc EXCEPT ![i] = AfterRace(how)]
  /\ UNCHANGED <<isDebugMode, bPc, bArgs, bOptions, bBrowser, bRaise, bOutput,
                 tPage, tOut, tResult, tFault, reordered>>
  /\ UNCHANGED nonBatchVars

\* const pageTitle = await page.title()
TaskTitle(i) ==
  /\ tPc[i] = "title"
  /\ \/ /\ bBrowser = "open"
        /\ tPc' = [tPc EXCEPT ![i] = "content"]
        /\ UNCHANGED <<bPc, bRaise, bOutput, tOut, tResult, tFault, tNav, reordered>>
     \/ \E th \in PageThrown :
          /\ SetFault(i, "title", th)
          /\ UnitEnds(i, UnitCatch(UrlAt(i), th))
  /\ UNCHANGED <<isDebugMode, bArgs, bOptions, bBrowser, tPage>>
  /\ UNCHANGED nonBatchVars

\* const html = await page.content(), and the rest of processPageContent,
\* which has no further suspension point.
TaskContent(i) ==
  /\ tPc[i] = "content"
  /\ \/ /\ bBrowser = "open"
        /\ \E html \in Docs, pipeThrown \in {NoThrow} \cup PipelineThrown :
             /\ pipeThrown # NoThrow => html # EmptyHtml
             /\ IF pipeThrown # NoThrow THEN SetFault(i, "pipeline", pipeThrown)
                ELSE IF html = EmptyHtml THEN SetFault(i, "emptyMarkup", NoThrow)
                ELSE UNCHANGED tFault
             /\ UnitEnds(i, UnitFinish(UrlAt(i), TitleOf(UrlAt(i)), html, bOptions,
                                       pipeThrown))
     \/ \E th \in PageThrown :
          /\ SetFault(i, "content", th)
          /\ UnitEnds(i, UnitCatch(UrlAt(i), th))
  /\ UNCHANGED <<isDebugMode, bArgs, bOptions, bBrowser, tPage>>
  /\ UNCHANGED nonBatchVars

\* What the task's promise settles with after `await page.close().catch(e =>
\* console.error(...))` in its finally, the unit having handed back `out`: the
\* catch turns a rejected close into a fulfilled promise.
CloseRethrown(out, rejected) == IF rejected THEN Raised(Err(ClosedMsg)) ELSE out

CloseCaught(out, rejected) == out

\* await page.close().catch(...) in the task's finally (the close fulfils, or
\* it rejects and the page stays as it is); then the task settles.
TaskClosePage(i) ==
  /\ tPc[i] = "closePage"
  /\ UNCHANGED <<tOut, tResult>>
  /\ \E rejected \in BOOLEAN :
       /\ tPage' = IF rejected THEN tPage ELSE [tPage EXCEPT ![PageOf(i)] = "closed"]
       /\ Settle(i, CloseCaught(tOut[i], rejected))
  /\ UNCHANGED <<isDebugMode, bArgs, bOptions, bBrowser, tFault, tNav>>
  /\ UNCHANGED nonBatchVars

\* await browser.close().catch(...) in the finally of fetchUrls; then the
\* call returns its text or raises the pending error.
BrowserCloseDone ==
  /\ bPc = "close"
  /\ \/ bBrowser' = "closed"
     \/ UNCHANGED bBrowser
  /\ bPc' = IF bRaise = "none" THEN "returned" ELSE "raised"
  /\ UNCHANGED <<isDebugMode, bArgs, bOptions, bRaise, bOutput, tPc, tPage, tOut,
                 tResult, tFault, tNav, reordered>>
  /\ UNCHANGED nonBatchVars

\* The steps of a fetch_urls call after its start.
BatchSteps ==
  \/ LaunchDone
  \/ ContextDone
  \/ RouteDone
  \/ BrowserCloseDone
  \/ \E i \in Tasks :
       \/ TaskNewPage(i)
       \/ TaskGoto(i)
       \/ TaskWaitNav(i)
       \/ TaskTitle(i)
       \/ TaskContent(i)
       \/ TaskClosePage(i)

BatchNext ==
  \/ FetchUrlsCall
  \/ BatchSteps


\* ------------------------------------------------- BrowserService session
MaxServices == 2
MaxLaunches == 2
MaxContexts == 2

\* The concurrent callers of the BrowserService API and of close_browser
\* (request handlers interleaved on the one event loop).
Callers == {"p", "q"}

Services == 1..MaxServices
BrowserIds == 1..MaxLaunches
ContextIds == 1..MaxContexts

\* Session states: the serialized cookies / storage snapshot.
EmptyState == "{}"
SessionStates == {EmptyState, "cookies"}

\* The options of a tool call that the BrowserService reads: options.debug
\* (absent, true or false) and options.disableMedia.
CallOptions == [debug : {"absent", "true", "false"}, disableMedia : BOOLEAN]

\* A call that gives neither option (disableMedia defaults to true).
DefaultCall == [debug |-> "absent", disableMedia |-> TRUE]

NoActiveText == "No active browser instance found."
ClosedText == "Storage state saved and Browser closed successfully."

SessionInit ==
  /\ instance = 0
  /\ svcCount = 0
  /\ svcBrowser = [s \in Services |-> 0]
  /\ svcContext = [s \in Services |-> 0]
  /\ launched = 0
  /\ openBrowsers = {}
  /\ ctxCount = 0
  /\ ctxOwner = [c \in ContextIds |-> 0]
  /\ ctxState = [c \in ContextIds |-> EmptyState]
  /\ storageFile \in {"absent"} \cup SessionStates
  /\ cPc = [p \in Callers |-> "idle"]
  /\ cSvc = [p \in Callers |-> 0]
  /\ cOn = [p \in Callers |-> 0]
  /\ lastClose = "none"
  /\ staleBrowsers = {}
  /\ staleContexts = {}
  /\ svcDebug = [s \in Services |-> FALSE]
  /\ svcMedia = [s \in Services |-> TRUE]
  /\ brHeadless = [b \in BrowserIds |-> TRUE]
  /\ ctxRoute = [c \in ContextIds |-> "none"]
  /\ cOpts = [p \in Callers |-> DefaultCall]
  /\ cRead = [p \in Callers |-> ""]

ghosts == <<staleBrowsers, staleContexts>>

\* What the constructor, createBrowser, setupMediaHandling and the pending
\* newContext keep of the options and of the storage file.
callVars == <<svcDebug, svcMedia, brHeadless, ctxRoute, cOpts, cRead>>

\* The BrowserService references a caller can hold: every object constructed
\* so far was handed out by createOrGetInstance and may have been kept.
Obtained == 1..svcCount

\* A caller makes a call other than close_browser.
OtherCall(p) ==
  /\ cPc[p] = "idle"
  /\ lastClose' = "none"

\* The call of p ends (returns or raises).
CallEnds(p) ==
  /\ cPc' = [cPc EXCEPT ![p] = "idle"]
  /\ cSvc' = [cSvc EXCEPT ![p] = 0]
  /\ cOn' = [cOn EXCEPT ![p] = 0]
  /\ cRead' = [cRead EXCEPT ![p] = ""]

\* The constructor: `this.isDebugMode = process.argv.includes("--debug")`,
\* then `if (options.debug !== undefined) this.isDebugMode = options.debug`.
ConstructedDebugMode(options) ==
  IF options.debug # "absent" THEN options.debug = "true" ELSE isDebugMode

CreateOrGetInstanceAlwaysNew(p, options) ==
  /\ OtherCall(p)
  /\ cOpts' = [cOpts EXCEPT ![p] = options]
  /\ svcCount < MaxServices
  /\ svcCount' = svcCount + 1
  /\ instance' = svcCount + 1
  /\ svcDebug' = [svcDebug EXCEPT ![svcCount + 1] = ConstructedDebugMode(options)]
  /\ svcMedia' = [svcMedia EXCEPT ![svcCount + 1] = options.disableMedia]
  /\ UNCHANGED <<svcBrowser, svcContext, launched, openBrowsers, ctxCount, ctxOwner,
                 ctxState, storageFile, cPc, cSvc, cOn, ghosts, brHeadless, ctxRoute,
                 cRead>>
  /\ UNCHANGED nonSessionVars

\* BrowserService.createOrGetInstance(options), with the constructor, at the
\* start of a tool call that has these options.
CreateOrGetInstanceWith(p, options) ==
  /\ OtherCall(p)
  /\ cOpts' = [cOpts EXCEPT ![p] = options]
  /\ IF instance = 0
     THEN /\ svcCount < MaxServices
          /\ svcCount' = svcCount + 1
          /\ instance' = svcCount + 1
          /\ svcDebug' = [svcDebug EXCEPT ![svcCount + 1] = ConstructedDebugMode(options)]
          /\ svcMedia' = [svcMedia EXCEPT ![svcCount + 1] = options.disableMedia]
     ELSE UNCHANGED <<instance, svcCount, svcDebug, svcMedia>>
  /\ UNCHANGED <<svcBrowser, svcContext, launched, openBrowsers, ctxCount, ctxOwner,
                 ctxState, storageFile, cPc, cSvc, cOn, ghosts, brHeadless, ctxRoute,
                 cRead>>
  /\ UNCHANGED nonSessionVars

\* createOrGetInstance in a call that gives neither debug nor disableMedia.
CreateOrGetInstance(p) == CreateOrGetInstanceWith(p, DefaultCall)

\* getOrCreateBrowser() on a reference the caller holds, up to its await:
\* `if (!this.browser)`; with a browser the call returns it at once.
GetOrCreateBrowser(p) ==
  /\ OtherCall(p)
  /\ \E this \in Obtained :
       IF svcBrowser[this] # 0
       THEN UNCHANGED <<cPc, cSvc>>
       ELSE /\ cPc' = [cPc EXCEPT ![p] = "launch"]
            /\ cSvc' = [cSvc EXCEPT ![p] = this]
  /\ UNCHANGED <<instance, svcCount, svcBrowser, svcContext, launched, openBrowsers,
                 ctxCount, ctxOwner, ctxState, storageFile, cOn, ghosts, callVars>>
  /\ UNCHANGED nonSessionVars

\* `this.browser = await this.createBrowser(); return this.browser;`, the
\* launch being made with `headless: !this.isDebugMode`; or the launch fails
\* and the call raises.
BrowserLaunched(p) ==
  /\ cPc[p] = "launch"
  /\ \/ /\ launched < MaxLaunches
        /\ launched' = launched + 1
        /\ openBrowsers' = openBrowsers \cup {launched + 1}
        /\ svcBrowser' = [svcBrowser EXCEPT ![cSvc[p]] = launched + 1]
        /\ brHeadless' = [brHeadless EXCEPT ![launched + 1] = ~svcDebug[cSvc[p]]]
     \/ UNCHANGED <<launched, openBrowsers, svcBrowser, brHeadless>>
  /\ CallEnds(p)
  /\ UNCHANGED <<instance, svcCount, svcContext, ctxCount, ctxOwner, ctxState,
                 storageFile, lastClose, staleBrowsers, staleContexts, svcDebug,
                 svcMedia, ctxRoute, cOpts>>
  /\ UNCHANGED nonSessionVars

\* `if (!fs.existsSync(STORAGE_STATE_PATH)) fs.writeFileSync(PATH, "{}")` in
\* createContext.
OverwrittenFile == EmptyState

InitialisedFile == IF storageFile = "absent" THEN EmptyState ELSE storageFile

\* getOrCreateContext(browser) on a reference the caller holds, for a browser
\* it was given earlier, up to its first await: the check of this.context /
\* this.viewport (with a context the call returns it at once), and
\* createContext down to browser.newContext, which writes the empty state when
\* the storage file does not exist.
GetOrCreateContext(p) ==
  /\ OtherCall(p)
  /\ \E this \in Obtained, browser \in 1..launched :
       IF svcContext[this] # 0
       THEN UNCHANGED <<cPc, cSvc, cOn, cRead, storageFile>>
       ELSE /\ storageFile' = InitialisedFile
            /\ cPc' = [cPc EXCEPT ![p] = "newContext"]
            /\ cSvc' = [cSvc EXCEPT ![p] = this]
            /\ cOn' = [cOn EXCEPT ![p] = browser]
            /\ cRead' = [cRead EXCEPT ![p] = InitialisedFile]
  /\ UNCHANGED <<instance, svcCount, svcBrowser, svcContext, launched, openBrowsers,
                 ctxCount, ctxOwner, ctxState, ghosts, svcDebug, svcMedia, brHeadless,
                 ctxRoute, cOpts>>
  /\ UNCHANGED nonSessionVars

\* The state a context is created from: newContext reads the file at PATH at
\* some moment between its call and its completion.
LoadedState(p) == {cRead[p], storageFile}

\* `const context = await browser.newContext({ ..., storageState: PATH })`: the
\* context starts from the state read from the file; newContext fails on a
\* closed browser (or otherwise) and the call raises.
ContextCreated(p) ==
  /\ cPc[p] = "newContext"
  /\ \/ /\ cOn[p] \in openBrowsers
        /\ ctxCount < MaxContexts
        /\ ctxCount' = ctxCount + 1
        /\ ctxOwner' = [ctxOwner EXCEPT ![ctxCount + 1] = cOn[p]]
        /\ \E st \in LoadedState(p) :
             ctxState' = [ctxState EXCEPT ![ctxCount + 1] = st]
        /\ cOn' = [cOn EXCEPT ![p] = ctxCount + 1]
        /\ cPc' = [cPc EXCEPT ![p] = "ctxSetup"]
        /\ cRead' = [cRead EXCEPT ![p] = ""]
        /\ UNCHANGED cSvc
     \/ /\ CallEnds(p)
        /\ UNCHANGED <<ctxCount, ctxOwner, ctxState>>
  /\ UNCHANGED <<instance, svcCount, svcBrowser, svcContext, launched, openBrowsers,
                 storageFile, lastClose, ghosts, svcDebug, svcMedia, brHeadless,
                 ctxRoute, cOpts>>
  /\ UNCHANGED nonSessionVars

\* setupMediaHandling: `if (this.options.disableMedia) await context.route(...)`
\* with a handler that aborts image, stylesheet, font and media requests.
InstalledRoute(this) == IF svcMedia[this] THEN "blocking" ELSE "plain"

\* await setupAntiDetection(context); await setupMediaHandling(context); then
\* `this.context = context; this.viewport = viewport` and the return; or a
\* set-up step fails (the browser was closed meanwhile) and the call raises.
ContextSetUp(p) ==
  /\ cPc[p] = "ctxSetup"
  /\ \/ /\ ctxOwner[cOn[p]] \in openBrowsers
        /\ svcContext' = [svcContext EXCEPT ![cSvc[p]] = cOn[p]]
        /\ ctxRoute' = [ctxRoute EXCEPT ![cOn[p]] = InstalledRoute(cSvc[p])]
     \/ UNCHANGED <<svcContext, ctxRoute>>
  /\ CallEnds(p)
  /\ UNCHANGED <<instance, svcCount, svcBrowser, launched, openBrowsers, ctxCount,
                 ctxOwner, ctxState, storageFile, lastClose, ghosts, svcDebug,
                 svcMedia, brHeadless, cOpts>>
  /\ UNCHANGED nonSessionVars

\* createPage(context, viewport), for a context the caller was given earlier:
\* await context.newPage() gives a page, or fails and the call raises.
CreatePage(p) ==
  /\ OtherCall(p)
  /\ Obtained # {}
  /\ \E context \in {c \in 1..ctxCount : ctxRoute[c] # "none"} :
       \/ /\ ctxOwner[context] \in openBrowsers
          /\ cPc' = [cPc EXCEPT ![p] = "page"]
          /\ cOn' = [cOn EXCEPT ![p] = context]
       \/ UNCHANGED <<cPc, cOn>>
  /\ UNCHANGED <<instance, svcCount, svcBrowser, svcContext, launched, openBrowsers,
                 ctxCount, ctxOwner, ctxState, storageFile, cSvc, ghosts, callVars>>
  /\ UNCHANGED nonSessionVars

\* The caller fetches on the page it created: the site sets or clears cookies /
\* storage in the page's context.
PageFetch(p) ==
  /\ cPc[p] = "page"
  /\ ctxOwner[cOn[p]] \in openBrowsers
  /\ \E st \in SessionStates : ctxState' = [ctxState EXCEPT ![cOn[p]] = st]
  /\ UNCHANGED <<instance, svcCount, svcBrowser, svcContext, launched, openBrowsers,
                 ctxCount, ctxOwner, storageFile, cPc, cSvc, cOn, lastClose, ghosts,
                 callVars>>
  /\ UNCHANGED nonSessionVars

\* closePage(page): `if (page) await page.close().catch(...)`; the page closes,
\* or its close fails and is logged; with a null page nothing happens.
ClosePage(p) ==
  /\ \/ /\ cPc[p] = "page"
        /\ CallEnds(p)
        /\ UNCHANGED lastClose
     \/ /\ OtherCall(p)
        /\ Obtained # {}
        /\ UNCHANGED <<cPc, cSvc, cOn, cRead>>
  /\ UNCHANGED <<instance, svcCount, svcBrowser, svcContext, launched, openBrowsers,
                 ctxCount, ctxOwner, ctxState, storageFile, ghosts, svcDebug, svcMedia,
                 brHeadless, ctxRoute, cOpts>>
  /\ UNCHANGED nonSessionVars

\* `BrowserService.instance = null` at the end of cleanup().
KeptInstance == instance

ClearedInstance == 0

\* cleanup() has run to its end: the close_browser call returns its
\* confirmation text.
CleanupEnds(p) ==
  /\ instance' = ClearedInstance
  /\ lastClose' = ClosedText
  /\ CallEnds(p)
  /\ staleBrowsers' = 1..launched
  /\ staleContexts' = 1..ctxCount

\* cleanup() threw: the close_browser call raises.
CloseBrowserRaises(p) ==
  /\ lastClose' = "none"
  /\ CallEnds(p)

\* closeBrowser(args): `await BrowserService.getInstance()`,
\* `if (!browserService) return ...; await browserService.cleanup()`, cleanup
\* running to its first await (or to its end when there is no browser).
CloseBrowser(p) ==
  /\ cPc[p] = "idle"
  /\ IF instance = 0
     THEN /\ lastClose' = NoActiveText
          /\ UNCHANGED <<instance, cPc, cSvc, cOn, cRead, ghosts>>
     ELSE IF svcBrowser[instance] = 0
     THEN CleanupEnds(p)
     ELSE /\ cSvc' = [cSvc EXCEPT ![p] = instance]
          /\ IF svcContext[instance] # 0
             THEN /\ cOn' = [cOn EXCEPT ![p] = svcContext[instance]]
                  /\ cPc' = [cPc EXCEPT ![p] = "saving"]
             ELSE /\ cOn' = [cOn EXCEPT ![p] = svcBrowser[instance]]
                  /\ cPc' = [cPc EXCEPT ![p] = "closing"]
          /\ UNCHANGED <<instance, lastClose, cRead, ghosts>>
  /\ UNCHANGED <<svcCount, svcBrowser, svcContext, launched, openBrowsers, ctxCount,
                 ctxOwner, ctxState, storageFile, svcDebug, svcMedia, brHeadless,
                 ctxRoute, cOpts>>
  /\ UNCHANGED nonSessionVars

\* `await this.context.storageState({ path: STORAGE_STATE_PATH })` wrote the
\* context's state, and `this.browser.close()` is called (a TypeError when
\* this.browser is null by now); or storageState failed and cleanup throws.
StateSaved(p) ==
  /\ cPc[p] = "saving"
  /\ \/ /\ ctxOwner[cOn[p]] \in openBrowsers
        /\ storageFile' = ctxState[cOn[p]]
        /\ IF svcBrowser[cSvc[p]] = 0
           THEN CloseBrowserRaises(p)
           ELSE /\ cOn' = [cOn EXCEPT ![p] = svcBrowser[cSvc[p]]]
                /\ cPc' = [cPc EXCEPT ![p] = "closing"]
                /\ UNCHANGED <<cSvc, cRead, lastClose>>
     \/ /\ CloseBrowserRaises(p)
        /\ UNCHANGED storageFile
  /\ UNCHANGED <<instance, svcCount, svcBrowser, svcContext, launched, openBrowsers,
                 ctxCount, ctxOwner, ctxState, ghosts, svcDebug, svcMedia, brHeadless,
                 ctxRoute, cOpts>>
  /\ UNCHANGED nonSessionVars

\* Whether `await this.browser.close().catch((e) => logger.error(...))`
\* raises in cleanup() when the close rejected: the catch logs and fulfils.
BrowserCloseRejectionRaises(rejected) == rejected

BrowserCloseRaises(rejected) == FALSE

\* `await this.browser.close().catch(...)` settled (closed, or failed and
\* logged); `this.browser = null; BrowserService.instance = null`.
BrowserClosed(p) ==
  /\ cPc[p] = "closing"
  /\ \E rejected \in BOOLEAN :
       /\ openBrowsers' = IF rejected THEN openBrowsers ELSE openBrowsers \ {cOn[p]}
       /\ IF BrowserCloseRaises(rejected)
          THEN /\ CloseBrowserRaises(p)
               /\ UNCHANGED <<svcBrowser, instance, ghosts>>
          ELSE /\ svcBrowser' = [svcBrowser EXCEPT ![cSvc[p]] = 0]
               /\ CleanupEnds(p)
  /\ UNCHANGED <<svcCount, svcContext, launched, ctxCount, ctxOwner, ctxState,
                 storageFile, svcDebug, svcMedia, brHeadless, ctxRoute, cOpts>>
  /\ UNCHANGED nonSessionVars

SessionNext ==
  \E p \in Callers :
    \/ CreateOrGetInstance(p)
    \/ GetOrCreateBrowser(p)
    \/ BrowserLaunched(p)
    \/ GetOrCreateContext(p)
    \/ ContextCreated(p)
    \/ ContextSetUp(p)
    \/ CreatePage(p)
    \/ PageFetch(p)
    \/ ClosePage(p)
    \/ CloseBrowser(p)
    \/ StateSaved(p)
    \/ BrowserClosed(p)

\* ----------------------------------------------------- fetch_url handler
\* request.params.arguments?.url as a client can send it.
UrlArgs == {JsUndefined, JsNull, JsStr(""), JsStr("a"), JsNum(0)}

\* const url = String(request.params.arguments?.url || "")
UrlString(arg) == StringOr(arg, "")

ToolInit ==
  /\ uPc = "idle"
  /\ uArg = JsUndefined
  /\ uBrowser = "none"
  /\ uPage = "none"

UrlNotChecked(url) == FALSE

\* if (!url) { ...; throw new Error("URL parameter is required"); }
MissingUrl(url) == url = ""

\* case "fetch_url", up to its first await: the url check, the option
\* parsing and the call of chromium.launch (the call is made while no
\* fetch_urls call has been made).
FetchUrlCall ==
  /\ uPc = "idle"
  /\ bPc = "idle"
  /\ \E arg \in UrlArgs :
       /\ uArg' = arg
       /\ uPc' = IF MissingUrl(UrlString(arg)) THEN "raised" ELSE "launch"
  /\ UNCHANGED <<uBrowser, uPage>>
  /\ UNCHANGED nonToolVars

\* browser = await chromium.launch(...); or the launch fails, the catch
\* returns an error text and the finally finds nothing to close.
FetchUrlLaunched ==
  /\ uPc = "launch"
  /\ \/ /\ uBrowser' = "open"
        /\ uPc' = "newPage"
     \/ /\ uPc' = "returned"
        /\ UNCHANGED uBrowser
  /\ UNCHANGED <<uArg, uPage>>
  /\ UNCHANGED nonToolVars

\* const context = await browser.newContext(); page = await context.newPage();
\* or one of them fails and the finally closes the browser.
FetchUrlPageOpened ==
  /\ uPc = "newPage"
  /\ \/ /\ uPage' = "open"
        /\ uPc' = "fetch"
     \/ /\ uPc' = "closeBrowser"
        /\ UNCHANGED uPage
  /\ UNCHANGED <<uArg, uBrowser>>
  /\ UNCHANGED nonToolVars

\* goto, title, content and the pipeline returned the page text, or one of
\* them threw and the catch returned an error text; the finally begins.
FetchUrlFetched ==
  /\ uPc = "fetch"
  /\ uPc' = "closePage"
  /\ UNCHANGED <<uArg, uBrowser, uPage>>
  /\ UNCHANGED nonToolVars

\* if (page) await page.close().catch(...)
FetchUrlPageClosed ==
  /\ uPc = "closePage"
  /\ uPage' \in {"closed", uPage}
  /\ uPc' = "closeBrowser"
  /\ UNCHANGED <<uArg, uBrowser>>
  /\ UNCHANGED nonToolVars

\* if (browser) await browser.close().catch(...); the handler returns.
FetchUrlBrowserClosed ==
  /\ uPc = "closeBrowser"
  /\ uBrowser' \in {"closed", uBrowser}
  /\ uPc' = "returned"
  /\ UNCHANGED <<uArg, uPage>>
  /\ UNCHANGED nonToolVars

\* ------------------------------------------------- processContent alone
MaxDoc == 4
MaxCut == 3

PageTokens == {"<p>", "</p>", "<div>", "x", "y"}

\* The markup page.content() can hand to processContent (never empty).
PipelineInputs == UNION {[1..n -> PageTokens] : n \in 1..MaxDoc}

PipelineOptions ==
  {[Options(NoArgs) EXCEPT !.extractContent = e, !.returnHtml = r, !.maxLength = m] :
     e \in BOOLEAN, r \in BOOLEAN, m \in 0..MaxCut}

NotProcessed == <<"<not called>">>

NoCalls == [readability |-> 0, turndown |-> 0]

CallsMadeAlways(options) == [readability |-> 1, turndown |-> 1]

\* The collaborators processContent calls: Readability.parse inside
\* `if (this.options.extractContent)`, turndown inside
\* `if (!this.options.returnHtml)`, each once.
CallsMade(options) ==
  [readability |-> IF options.extractContent THEN 1 ELSE 0,
   turndown |-> IF ~options.returnHtml THEN 1 ELSE 0]

PipeInit ==
  /\ pHtml = <<>>
  /\ pOptions = Options(NoArgs)
  /\ pOut = NotProcessed
  /\ pCalls = NoCalls
  /\ pUrl = ""
  /\ pFault = NoThrow
  /\ pUnit = NoOut

\* processor.processContent(html, url) on a processor built with options.
ProcessContent ==
  /\ pOut = NotProcessed
  /\ \E html \in PipelineInputs, options \in PipelineOptions :
       /\ pHtml' = html
       /\ pOptions' = options
       /\ pOut' = processContent(html, options)
       /\ pCalls' = CallsMade(options)
  /\ UNCHANGED <<pUrl, pFault, pUnit>>
  /\ UNCHANGED nonPipeVars

\* One processPageContent(page, url) call from its start to its return: a step
\* before the markup is held throws (set-timeout, goto, title, content) and the
\* catch returns; or page.content() resolves with html, and the empty check,
\* the pipeline (which may throw) and the success literal follow.
ProcessPageContent ==
  /\ pUnit = NoOut
  /\ pOut = NotProcessed
  /\ \E url \in Urls, earlier \in {NoThrow} \cup GotoThrown \cup PageThrown :
       /\ pUrl' = url
       /\ IF earlier # NoThrow
          THEN /\ pFault' = earlier
               /\ pUnit' = UnitCatch(url, earlier)
               /\ UNCHANGED <<pHtml, pOptions, pOut, pCalls>>
          ELSE \E html \in PipelineInputs \cup {EmptyHtml}, options \in PipelineOptions,
                  pipeThrown \in {NoThrow} \cup PipelineThrown :
                 /\ pipeThrown # NoThrow => html # EmptyHtml
                 /\ pHtml' = html
                 /\ pOptions' = options
                 /\ pFault' = pipeThrown
                 /\ pUnit' = UnitFinish(url, TitleOf(url), html, options, pipeThrown)
                 /\ pCalls' = IF html = EmptyHtml THEN NoCalls ELSE CallsMade(options)
                 /\ pOut' = IF html = EmptyHtml \/ pipeThrown # NoThrow
                            THEN NotProcessed
                            ELSE processContent(html, options)
  /\ UNCHANGED nonPipeVars

\* ------------------------------------------------------ closePage alone
CloseInit ==
  /\ kPc = "idle"
  /\ kPage = "null"
  /\ kLogged = FALSE

\* closePage(page) is called with null, an open page or a page closed before:
\* `if (page)` (line 257), then page.close() is pending.
ClosePageCall ==
  /\ kPc = "idle"
  /\ \E page \in {"null", "open", "closed"} :
       /\ kPage' = page
       /\ kPc' = IF page = "null" THEN "returned" ELSE "closing"
  /\ UNCHANGED kLogged
  /\ UNCHANGED nonCloseVars

\* `await page.close().catch((e) => logger.error(...))` settled: the page is
\* closed, or the close rejected and the catch logged it; closePage returns.
PageCloseSettled ==
  /\ kPc = "closing"
  /\ \/ /\ kPage' = "closed"
        /\ UNCHANGED kLogged
     \/ /\ kLogged' = TRUE
        /\ UNCHANGED kPage
  /\ kPc' = "returned"
  /\ UNCHANGED nonCloseVars

\* ------------------------------------- launch and context configuration
\* The table of getRandomViewport (lines 72-81).
viewports ==
  <<[width |-> 1920, height |-> 1080],
    [width |-> 1366, height |-> 768],
    [width |-> 1536, height |-> 864],
    [width |-> 1440, height |-> 900],
    [width |-> 1280, height |-> 720]>>

\* The number of entries of the table of getRandomUserAgent (lines 52-66).
UserAgentCount == 7

\* Math.floor(Math.random() * length): any index of the table.
RandomIndex(length) == 1..length

NoSize == <<0, 0>>

ViewInit ==
  /\ wPc = "none"
  /\ wWindow = NoSize
  /\ wViewport = NoSize
  /\ wUserAgent = 0
  /\ wScale = 0

\* createBrowser: `const viewport = this.getRandomViewport()` and the launch
\* argument '--window-size=' + viewport.width + ',' + viewport.height.
CreateBrowser ==
  /\ wPc = "none"
  /\ \E i \in RandomIndex(Len(viewports)) :
       wWindow' = <<viewports[i].width, viewports[i].height>>
  /\ wPc' = "launched"
  /\ UNCHANGED <<wViewport, wUserAgent, wScale>>
  /\ UNCHANGED nonViewVars

\* createContext(browser): `const viewport = this.getRandomViewport()`, a
\* second draw, then browser.newContext({ userAgent: this.getRandomUserAgent(),
\* viewport: viewport, deviceScaleFactor: Math.random() > 0.5 ? 1 : 2, ... }).
CreateContext ==
  /\ wPc = "launched"
  /\ \E i \in RandomIndex(Len(viewports)) :
       wViewport' = <<viewports[i].width, viewports[i].height>>
  /\ wUserAgent' \in RandomIndex(UserAgentCount)
  /\ wScale' \in {1, 2}
  /\ wPc' = "context"
  /\ UNCHANGED wWindow
  /\ UNCHANGED nonViewVars

\* ------------------------------------------------- the navigation race
\* processPageContent with waitForNavigation = true, after page.goto resolved:
\* navigationPromise and timeoutPromise have been created and handed to
\* Promise.race in the same synchronous run, and the call awaits the race.
RaceInit ==
  /\ rPc = "race"
  /\ rNav = "pending"
  /\ rTimer = "pending"
  /\ rWinner = "none"
  /\ rResult = NoOut
  /\ rUnhandled = FALSE

\* The promises Promise.race([navigationPromise, timeoutPromise]) has put its
\* own reactions on: every element of the array it is given.
RaceSubscribed == {"navigation", "timer"}

\* The race promise settles with the first settlement it is told of; the
\* resolving functions of a promise do nothing once it is settled.
RaceOutcomeLast(winner, how) == how

RaceOutcome(winner, how) == IF winner = "none" THEN how ELSE winner

\* navigationPromise or timeoutPromise settles in the way `how`; the race
\* promise is told, and when this settles it the awaiting call goes on
\* through .then / .catch.
BranchSettles(promise, how, rejects) ==
  /\ rWinner' = RaceOutcome(rWinner, how)
  /\ rPc' = IF rPc = "race" THEN AfterRace(rWinner') ELSE rPc
  /\ rUnhandled' = (rUnhandled \/ (rejects /\ promise \notin RaceSubscribed))
  /\ UNCHANGED rResult

\* page.waitForNavigation(...) fulfils: a navigation was observed.
NavigationSeen ==
  /\ rNav = "pending"
  /\ rNav' = "fulfilled"
  /\ BranchSettles("navigation", "navigated", FALSE)
  /\ UNCHANGED rTimer
  /\ UNCHANGED nonRaceVars

\* page.waitForNavigation(...) rejects: its own timeout, or the page closed.
NavigationWaitRejects ==
  /\ rNav = "pending"
  /\ rNav' = "rejected"
  /\ BranchSettles("navigation", "rejected", TRUE)
  /\ UNCHANGED rTimer
  /\ UNCHANGED nonRaceVars

\* setTimeout(() => reject(new Error("Navigation timeout")), navigationTimeout)
\* fires; the timer is never cleared, so it fires in every run.
TimerFires ==
  /\ rTimer = "pending"
  /\ rTimer' = "rejected"
  /\ BranchSettles("timer", "timer", TRUE)
  /\ UNCHANGED rNav
  /\ UNCHANGED nonRaceVars

\* The rest of processPageContent after the race: the title and markup reads,
\* the pipeline and the result, or the catch of what one of them threw.
RaceUnitReturns ==
  /\ rPc = "title"
  /\ rPc' = "returned"
  /\ \E url \in Urls :
       \/ \E th \in PageThrown : rResult' = UnitCatch(url, th)
       \/ \E html \in Docs, returnHtml \in BOOLEAN, extractContent \in BOOLEAN,
               pipeThrown \in {NoThrow} \cup PipelineThrown :
            /\ pipeThrown # NoThrow => html # EmptyHtml
            /\ rResult' = UnitFinish(url, TitleOf(url), html,
                                     [Options(NoArgs) EXCEPT !.returnHtml = returnHtml,
                                                             !.extractContent = extractContent,
                                                             !.waitForNavigation = TRUE],
                                     pipeThrown)
  /\ UNCHANGED <<rNav, rTimer, rWinner, rUnhandled>>
  /\ UNCHANGED nonRaceVars

\* ---------------------------------------- fetch_urls handler of index.ts
HandlerInit ==
  /\ hPc = "idle"
  /\ hUrls = <<>>
  /\ hBrowser = "none"
  /\ fetchTasks = [i \in Tasks |-> "unused"]
  /\ hPage = [i \in Tasks |-> "none"]
  /\ hResults = <<>>

\* The object a task pushes: { index, url, success, content, error }, the
\* content and error being those of the push of that kind ("success",
\* "empty", "fetch", "tab").
ResultEntry(i, kind) ==
  [index |-> i - 1, url |-> hUrls[i], success |-> (kind = "success"), kind |-> kind]

\* case "fetch_urls" with a non-empty array of urls, up to chromium.launch.
HandlerCall ==
  /\ hPc = "idle"
  /\ \E urls \in UrlLists \ {<<>>} : hUrls' = urls
  /\ hPc' = "launch"
  /\ UNCHANGED <<hBrowser, fetchTasks, hPage, hResults>>
  /\ UNCHANGED nonHandlerVars

\* const browser = await chromium.launch(...); a failure goes to the outer
\* catch, which returns the error text.
HandlerLaunched ==
  /\ hPc = "launch"
  /\ \/ /\ hBrowser' = "open"
        /\ hPc' = "context"
     \/ /\ hPc' = "returnedError"
        /\ UNCHANGED hBrowser
  /\ UNCHANGED <<hUrls, fetchTasks, hPage, hResults>>
  /\ UNCHANGED nonHandlerVars

\* const context = await browser.newContext(); then urls.map starts every
\* task, each running to its newPage() await, and Promise.all is awaited.
HandlerContext ==
  /\ hPc = "context"
  /\ \/ /\ hPc' = "all"
        /\ fetchTasks' = [i \in Tasks |-> IF i <= Len(hUrls) THEN "newPage" ELSE "unused"]
     \/ /\ hPc' = "returnedError"
        /\ UNCHANGED fetchTasks
  /\ UNCHANGED <<hUrls, hBrowser, hPage, hResults>>
  /\ UNCHANGED nonHandlerVars

\* The continuation of `await Promise.all(fetchTasks)` and the finally around
\* it: entered at the first rejection, or when every task has fulfilled.
HandlerAll(tasks) ==
  IF hPc # "all" THEN UNCHANGED hPc
  ELSE IF \E j \in 1..Len(hUrls) : tasks[j] = "rejected" THEN hPc' = "closeError"
  ELSE IF \A j \in 1..Len(hUrls) : tasks[j] = "done" THEN hPc' = "close"
  ELSE UNCHANGED hPc

HandlerTaskSettles(i, how) ==
  LET tasks == [fetchTasks EXCEPT ![i] = how]
  IN  /\ fetchTasks' = tasks
      /\ HandlerAll(tasks)

\* Whether a rejection of context.newPage() is caught inside the task: the
\* call is inside the task's outer try (lines 397-399, catch at 554).
TabCreationUncaught == FALSE

TabCreationCaught == TRUE

\* const page = await context.newPage(); on failure the outer catch pushes
\* the tab-creation entry and the task ends.
HandlerNewPage(i) ==
  /\ fetchTasks[i] = "newPage"
  /\ \/ /\ hBrowser = "open"
        /\ hPage' = [hPage EXCEPT ![i] = "open"]
        /\ fetchTasks' = [fetchTasks EXCEPT ![i] = "goto"]
        /\ UNCHANGED <<hPc, hResults>>
     \/ /\ IF TabCreationCaught
           THEN /\ hResults' = Append(hResults, ResultEntry(i, "tab"))
                /\ HandlerTaskSettles(i, "done")
           ELSE /\ UNCHANGED hResults
                /\ HandlerTaskSettles(i, "rejected")
        /\ UNCHANGED hPage
  /\ UNCHANGED <<hUrls, hBrowser>>
  /\ UNCHANGED nonHandlerVars

\* A page operation of the inner try threw: the inner catch pushes the error
\* entry and the finally closes the page.
HandlerCatch(i) ==
  /\ hResults' = Append(hResults, ResultEntry(i, "fetch"))
  /\ fetchTasks' = [fetchTasks EXCEPT ![i] = "closePage"]

\* await page.goto(url, ...), await page.title()
HandlerPageStep(i, at, next) ==
  /\ fetchTasks[i] = at
  /\ \/ /\ hBrowser = "open"
        /\ fetchTasks' = [fetchTasks EXCEPT ![i] = next]
        /\ UNCHANGED hResults
     \/ HandlerCatch(i)
  /\ UNCHANGED <<hPc, hUrls, hBrowser, hPage>>
  /\ UNCHANGED nonHandlerVars

HandlerGoto(i) == HandlerPageStep(i, "goto", "title")

HandlerTitle(i) == HandlerPageStep(i, "title", "content")

\* const html = await page.content() and the rest of the inner try: the
\* empty-markup push and return, the pipeline, and the success push; a throw
\* of the read or of the pipeline goes to the inner catch.
HandlerContent(i) ==
  /\ fetchTasks[i] = "content"
  /\ \/ /\ hBrowser = "open"
        /\ \E kind \in {"empty", "success"} :
             hResults' = Append(hResults, ResultEntry(i, kind))
        /\ fetchTasks' = [fetchTasks EXCEPT ![i] = "closePage"]
     \/ HandlerCatch(i)
  /\ UNCHANGED <<hPc, hUrls, hBrowser, hPage>>
  /\ UNCHANGED nonHandlerVars

\* finally { await page.close().catch(...) }: closed, or failed and logged;
\* the task fulfils.
HandlerClosePage(i) ==
  /\ fetchTasks[i] = "closePage"
  /\ \/ hPage' = [hPage EXCEPT ![i] = "closed"]
     \/ UNCHANGED hPage
  /\ HandlerTaskSettles(i, "done")
  /\ UNCHANGED <<hUrls, hBrowser, hResults>>
  /\ UNCHANGED nonHandlerVars

\* finally { await browser.close().catch(...) }; then results.sort and the
\* combined text, or the outer catch with its error text.
HandlerBrowserClosed ==
  /\ hPc \in {"close", "closeError"}
  /\ \/ hBrowser' = "closed"
     \/ UNCHANGED hBrowser
  /\ IF hPc = "close"
     THEN /\ hResults' = SortByIndex(hResults)
          /\ hPc' = "returned"
     ELSE /\ UNCHANGED hResults
          /\ hPc' = "returnedError"
  /\ UNCHANGED <<hUrls, fetchTasks, hPage>>
  /\ UNCHANGED nonHandlerVars

HandlerNext ==
  \/ HandlerCall
  \/ HandlerLaunched
  \/ HandlerContext
  \/ HandlerBrowserClosed
  \/ \E i \in Tasks :
       \/ HandlerNewPage(i)
       \/ HandlerGoto(i)
       \/ HandlerTitle(i)
       \/ HandlerContent(i)
       \/ HandlerClosePage(i)

\* ------------------------------------------------------- specifications
Init ==
  /\ BatchInit /\ SessionInit /\ ToolInit /\ PipeInit /\ CloseInit /\ ViewInit
  /\ RaceInit /\ HandlerInit

\* The session manager alone, in a server started without --debug whose calls
\* give neither debug nor disableMedia: no fetch_urls call is made.
SessionOnlyInit == Init /\ ~isDebugMode

SpecSession == SessionOnlyInit /\ [][SessionNext]_vars

\* fetch_urls alone: it launches its own browser and never goes through the
\* BrowserService.
BatchOnlyInit == Init /\ storageFile = "absent"

Spec == BatchOnlyInit /\ [][BatchNext]_vars

\* One caller making tool calls one after the other, each with its own debug
\* option, in a server started with or without --debug.
Sequential == "p"

DebugOptions == {options \in CallOptions : options.disableMedia}

DebugCall(p) == \E options \in DebugOptions : CreateOrGetInstanceWith(p, options)

DebugNext ==
  \/ DebugCall(Sequential)
  \/ GetOrCreateBrowser(Sequential)
  \/ BrowserLaunched(Sequential)
  \/ GetOrCreateContext(Sequential)
  \/ ContextCreated(Sequential)
  \/ ContextSetUp(Sequential)
  \/ CloseBrowser(Sequential)
  \/ StateSaved(Sequential)
  \/ BrowserClosed(Sequential)

DebugInit == Init /\ storageFile = "absent"

SpecDebug == DebugInit /\ [][DebugNext]_vars

\* One caller making tool calls one after the other, each with its own
\* disableMedia option, and fetching on the pages it creates.
MediaOptions == {options \in CallOptions : options.debug = "absent"}

MediaCall(p) == \E options \in MediaOptions : CreateOrGetInstanceWith(p, options)

MediaNext ==
  \/ MediaCall(Sequential)
  \/ GetOrCreateBrowser(Sequential)
  \/ BrowserLaunched(Sequential)
  \/ GetOrCreateContext(Sequential)
  \/ ContextCreated(Sequential)
  \/ ContextSetUp(Sequential)
  \/ CreatePage(Sequential)
  \/ PageFetch(Sequential)
  \/ ClosePage(Sequential)
  \/ CloseBrowser(Sequential)
  \/ StateSaved(Sequential)
  \/ BrowserClosed(Sequential)

MediaInit == Init /\ storageFile = "absent" /\ ~isDebugMode

SpecMedia == MediaInit /\ [][MediaNext]_vars

\* The two fetch tools, one call at a time: a fetch_url call or a fetch_urls
\* call with any argument, run to its end.
CallFetchUrls == uPc = "idle" /\ FetchUrlsCall

ToolsNext ==
  \/ CallFetchUrls
  \/ BatchSteps
  \/ FetchUrlCall
  \/ FetchUrlLaunched
  \/ FetchUrlPageOpened
  \/ FetchUrlFetched
  \/ FetchUrlPageClosed
  \/ FetchUrlBrowserClosed

SpecTools == BatchOnlyInit /\ [][ToolsNext]_vars

\* The option derivation of fetch_urls alone, on every combination of the
\* argument values below.
NumberArgs == {JsUndefined, JsNum(0), JsNum(-5), JsNum(5000), JsStr("abc")}

FlagArgs == {JsUndefined, JsBool(TRUE), JsBool(FALSE), JsStr("true")}

WaitUntilArgs == {JsUndefined, JsStr(""), JsStr("networkidle"), JsStr("soon")}

OneUrl == [kind |-> "array", list |-> <<"a">>]

OptionArgs ==
  [urls : {OneUrl}, timeout : NumberArgs, waitUntil : WaitUntilArgs,
   extractContent : FlagArgs, maxLength : NumberArgs, returnHtml : FlagArgs,
   waitForNavigation : FlagArgs, navigationTimeout : NumberArgs,
   disableMedia : FlagArgs, debug : {JsUndefined}]

\* fetchUrls from its start to the end of `const options = { ... }`.
DeriveOptions ==
  /\ bPc = "idle"
  /\ \E args \in OptionArgs :
       /\ bArgs' = args
       /\ bOptions' = Options(args)
  /\ bPc' = "options"
  /\ UNCHANGED <<isDebugMode, bBrowser, bRaise, bOutput, tPc, tPage, tOut, tResult,
                 tFault, tNav, reordered>>
  /\ UNCHANGED nonBatchVars

OptionsInit == Init /\ storageFile = "absent" /\ ~isDebugMode

SpecOptions == OptionsInit /\ [][DeriveOptions]_vars

\* fetch_urls calls that carry the debug argument of the README ("overrides
\* the --debug command line flag if specified"), absent, true or false, in a
\* server started with or without --debug. fetchUrls reads args.urls and the
\* eight option fields and nothing else of args (lines 540-555).
TwoUrls == [kind |-> "array", list |-> <<"a", "b">>]

DebugArgs ==
  {[Args(urls, w) EXCEPT !.debug = debug] :
     urls \in {OneUrl, TwoUrls}, w \in {JsUndefined, JsBool(TRUE)},
     debug \in {JsUndefined, JsBool(TRUE), JsBool(FALSE)}}

FetchUrlsDebugCall ==
  /\ bPc = "idle"
  /\ \E args \in DebugArgs :
       /\ bArgs' = args
       /\ bPc' = "launch"
       /\ bOptions' = Options(args)
  /\ UNCHANGED <<isDebugMode, bBrowser, bRaise, bOutput, tPc, tPage, tOut, tResult,
                 tFault, tNav, reordered>>
  /\ UNCHANGED nonBatchVars

FlagNext ==
  \/ FetchUrlsDebugCall
  \/ BatchSteps

SpecFlag == BatchOnlyInit /\ [][FlagNext]_vars

\* fetch_urls calls and a closePage call, in any interleaving.
CloseNext ==
  \/ FetchUrlsCall
  \/ BatchSteps
  \/ ClosePageCall
  \/ PageCloseSettled

SpecClose == BatchOnlyInit /\ [][CloseNext]_vars

\* The server with one client: a fetch_urls call on one url, and calls that
\* obtain the BrowserService, have it launch its browser and close it with
\* close_browser, in any interleaving and in a server started with or
\* without --debug.
ServerArgs == {Args(OneUrl, w) : w \in {JsUndefined, JsBool(TRUE)}}

ServerFetchUrls ==
  /\ bPc = "idle"
  /\ \E args \in ServerArgs :
       /\ bArgs' = args
       /\ bOptions' = Options(args)
  /\ bPc' = "launch"
  /\ UNCHANGED <<isDebugMode, bBrowser, bRaise, bOutput, tPc, tPage, tOut, tResult,
                 tFault, tNav, reordered>>
  /\ UNCHANGED nonBatchVars

ServerNext ==
  \/ ServerFetchUrls
  \/ BatchSteps
  \/ CreateOrGetInstance(Sequential)
  \/ GetOrCreateBrowser(Sequential)
  \/ BrowserLaunched(Sequential)
  \/ CloseBrowser(Sequential)
  \/ BrowserClosed(Sequential)

SpecServer == DebugInit /\ [][ServerNext]_vars

\* The navigation race of one processPageContent call and the rest of the
\* call, with the losing branch settling at any later moment.
RaceNext ==
  \/ NavigationSeen
  \/ NavigationWaitRejects
  \/ TimerFires
  \/ RaceUnitReturns

SpecRace == OptionsInit /\ [][RaceNext]_vars

\* A fetch_urls call in which every pending operation is eventually answered:
\* each awaited browser operation of the call and of each task completes or
\* fails, the timer of the navigation race fires, and the event loop runs
\* the continuation that has become ready.
TaskStep(i) ==
  \/ TaskNewPage(i)
  \/ TaskGoto(i)
  \/ TaskWaitNav(i)
  \/ TaskTitle(i)
  \/ TaskContent(i)
  \/ TaskClosePage(i)

OperationsAnswered ==
  /\ WF_vars(LaunchDone)
  /\ WF_vars(ContextDone)
  /\ WF_vars(RouteDone)
  /\ WF_vars(BrowserCloseDone)
  /\ \A i \in Tasks : WF_vars(TaskStep(i))

SpecLive == BatchOnlyInit /\ [][BatchNext]_vars /\ OperationsAnswered

\* One fetch_urls call of the request handler of index.ts.
SpecHandler == OptionsInit /\ [][HandlerNext]_vars

\* The configuration of one launch and of the context created in it.
ViewNext ==
  \/ CreateBrowser
  \/ CreateContext

SpecView == OptionsInit /\ [][ViewNext]_vars

\* processContent alone, on every markup and option combination above.
SpecPipeline == OptionsInit /\ [][ProcessContent]_vars

\* processPageContent alone, on every url, throw, markup and option
\* combination above.
SpecUnit == OptionsInit /\ [][ProcessPageContent]_vars

\* ------------------------------------------------------------- claims
Finished(i) == tPc[i] \in {"closePage", "settled"}

ErrorMessage(thrown) == IF thrown.isError THEN thrown.message ELSE "Unknown error"

RECURSIVE ExpectedText(_)
ExpectedText(k) ==
  IF k > N THEN <<>>
  ELSE <<"[webpage ", ToString(k), " begin]\n">> \o tResult[k].content
         \o <<"\n[webpage ", ToString(k), " end]">>
         \o (IF k < N THEN <<"\n\n">> ELSE <<>>)
         \o ExpectedText(k + 1)

\* The URL line of a result body (both templates carry the requested URL).
UrlOfContent(content) == IF content[1] = "Title: " THEN content[4] ELSE content[2]

\* C1: the text fetch_urls returns is, for every URL list of length N and
\* every order in which the tasks settle, the N segments [webpage k begin] ..
\* [webpage k end], k = 1..N, and segment k holds the result of the URL at
\* position k of the list.
C1_SegmentsInInputOrder ==
  (bPc \in {"close", "returned"} /\ bRaise = "none") =>
    /\ bOutput = ExpectedText(1)
    /\ \A k \in 1..N : UrlOfContent(tResult[k].content) = UrlAt(k)

C1_Witness ==
  /\ bPc = "returned"
  /\ N = 2
  /\ UrlAt(1) # UrlAt(2)
  /\ reordered

\* C2: a navigation failure, a navigation timeout or an extraction failure of
\* one URL makes that URL's result success=false with the failure's message as
\* its error, rejects no task and does not make the batch raise; every task
\* whose own fetch had no failure yields success=true.
C2_FaultIsolation ==
  /\ \A i \in 1..N :
       /\ (Finished(i) /\ tFault[i].step \in {"goto", "pipeline"}) =>
            /\ ~tResult[i].success
            /\ tResult[i].error = <<ErrorMessage(tFault[i].thrown)>>
            /\ tResult[i].content[4] = ErrorMessage(tFault[i].thrown)
       /\ (Finished(i) /\ tFault[i].step = "none") => tResult[i].success
       /\ tPc[i] = "rejected" => tFault[i].step = "newPage"
  /\ bRaise = "newPage" => \E i \in 1..N : tFault[i].step = "newPage"

C2_Witness ==
  /\ bPc = "returned"
  /\ N = 2
  /\ tFault[1] = [step |-> "goto", thrown |-> Err(TimeoutMsg)]
  /\ ~tResult[1].success
  /\ tFault[2].step = "none"
  /\ tResult[2].success

\* C3: fetch_urls raises only for a missing/empty URL list or a failure to set
\* up the shared browser (launch, context, route); a failure local to one URL,
\* a failure to create its page included, never makes the call raise.
C3_OnlySetupFailuresRaise ==
  bPc = "raised" => bRaise \in {"param", "launch", "context", "route"}

\* C4 as stated: processPageContent never raises, and whichever of set-timeout,
\* navigation, navigation wait, title read, markup read or pipeline throws,
\* the result is success=false with the thrown error's message as its error.
C4_EveryThrowFails ==
  [][\A i \in Tasks :
       (tPc[i] \in {"newPage", "goto", "title", "content"} /\ Finished(i)') =>
         /\ ~tOut'[i].raised
         /\ tFault'[i].step \in {"setTimeout", "goto", "title", "content", "pipeline"} =>
              /\ ~tResult'[i].success
              /\ tFault'[i].thrown.isError =>
                   tResult'[i].error = <<tFault'[i].thrown.message>>
         /\ tNav[i] \in {"timer", "rejected"} => ~tResult'[i].success]_batchVars

\* C4 as amended: processPageContent never raises; a throw of set-timeout,
\* navigation, title read, markup read or pipeline gives success=false with
\* the thrown Error's message ("Unknown error" for a thrown non-Error) as its
\* error; a rejection of the navigation wait or of its timer is swallowed and
\* the unit goes on to the title read.
C4_ThrowsCaughtWaitSwallowed ==
  [][\A i \in Tasks :
       /\ (tPc[i] \in {"newPage", "goto", "title", "content"} /\ Finished(i)') =>
            /\ ~tOut'[i].raised
            /\ tFault'[i].step \in {"setTimeout", "goto", "title", "content", "pipeline"} =>
                 /\ ~tResult'[i].success
                 /\ tResult'[i].error = <<ErrorMessage(tFault'[i].thrown)>>
       /\ (tPc[i] = "waitNav" /\ tPc'[i] # "waitNav") =>
            /\ tPc'[i] = "title"
            /\ tOut'[i] = tOut[i]
            /\ tFault'[i] = tFault[i]
       /\ (tPc[i] # "rejected" /\ tPc'[i] = "rejected") => tPc[i] = "newPage"]_batchVars

C4_Witness ==
  \E i \in 1..N :
    /\ bOptions.waitForNavigation
    /\ Finished(i)
    /\ tFault[i].step = "pipeline"
    /\ ~tFault[i].thrown.isError
    /\ tResult[i].error = <<"Unknown error">>

\* C5: every FetchResult of the page fetch unit has a non-empty content, and
\* has an error exactly when success is false.
C5_ResultWellFormed ==
  \A i \in 1..N :
    Finished(i) =>
      /\ Len(tOut[i].result.content) > 0
      /\ tOut[i].result.content[1] # ""
      /\ (Len(tOut[i].result.error) = 1) <=> ~tOut[i].result.success

C5_Witness ==
  \E i, j \in 1..N :
    /\ Finished(i) /\ tOut[i].result.success
    /\ Finished(j) /\ tFault[j].step = "emptyMarkup" /\ ~tOut[j].result.success

\* ------------------------------------------------ claims on the session
\* The browsers launched since the last completed cleanup().
EpochLaunched == (1..launched) \ staleBrowsers

\* C6: between two cleanup() calls the browser is launched at most once, also
\* when several callers invoke getOrCreateBrowser() before the first launch has
\* completed.
C6_LaunchedAtMostOnce == Cardinality(EpochLaunched) <= 1

\* C7: at every moment the browser held by the session manager owns at most
\* one context, also when getOrCreateContext(browser) calls are issued before
\* the first context creation has completed.
C7_BrowserOwnsAtMostOneContext ==
  \A s \in Services :
    svcBrowser[s] # 0 =>
      Cardinality({c \in 1..ctxCount : ctxOwner[c] = svcBrowser[s]}) <= 1

\* C8: a close_browser call made right after a close_browser call that
\* returned, or with no instance ever created, does not fail: it returns the
\* no-active-instance text, tears nothing down and writes no session state.
C8_SecondCloseIsNoOp ==
  [][\A p \in Callers :
       (/\ CloseBrowser(p)
        /\ lastClose \in {ClosedText, NoActiveText} \/ svcCount = 0)
       => /\ lastClose' = NoActiveText
          /\ cPc'[p] = "idle"
          /\ UNCHANGED <<instance, svcBrowser, svcContext, openBrowsers,
                         storageFile>>]_vars

\* A second close_browser call has returned after a first one closed a browser.
C8_Witness ==
  /\ lastClose = NoActiveText
  /\ instance = 0
  /\ staleBrowsers # {}
  /\ openBrowsers = {}

\* C9: after a completed cleanup(), the handle that getOrCreateBrowser() /
\* getOrCreateContext() returns on any BrowserService reference obtained so far
\* is never a browser or context that existed before that cleanup.
C9_NoHandleFromBeforeCleanup ==
  \A this \in Obtained :
    /\ svcBrowser[this] \notin staleBrowsers
    /\ svcContext[this] \notin staleContexts

\* C10 (as stated): only the save step of cleanup() changes the persisted
\* session-state location.
C10_OnlyCleanupWrites ==
  [][storageFile' # storageFile => \E p \in Callers : StateSaved(p)]_vars

\* C10 (amended): the persisted session-state location changes only in the
\* save step of cleanup(), or in createContext when the location does not
\* exist and is initialised with the empty state; getOrCreateBrowser,
\* createPage, closePage and every fetch leave it unchanged.
C10_OnlyCleanupWritesOrContextInitialises ==
  [][storageFile' # storageFile =>
       \/ \E p \in Callers : StateSaved(p)
       \/ /\ storageFile = "absent"
          /\ storageFile' = EmptyState
          /\ \E p \in Callers : GetOrCreateContext(p)]_vars

\* cleanup() has written the cookies a fetch had set in the context it saved,
\* over a location that createContext had found or initialised.
C10_Witness ==
  /\ lastClose = ClosedText
  /\ storageFile = "cookies"
  /\ \E c \in staleContexts : ctxState[c] = "cookies"

\* C11: session state round-trips across lifecycles. A context is created with
\* the state the persisted location holds at that moment (the state written by
\* the most recent cleanup() that had a context, the empty state if there was
\* none), and a cleanup() that has a live context writes exactly that
\* context's current state.
C11_StateRoundTrips ==
  [][/\ ctxCount' > ctxCount =>
          ctxState'[ctxCount'] = (IF storageFile = "absent" THEN EmptyState
                                                             ELSE storageFile)
     /\ \A p \in Callers :
          (cPc[p] = "saving" /\ cPc'[p] = "closing") =>
             storageFile' = ctxState[cOn[p]]]_vars

\* C12: for every call, the debug flag that decides between a windowed and a
\* headless browser is the call's own debug option when given and the
\* process-wide --debug flag otherwise: the service the call gets from
\* createOrGetInstance carries that flag, and a browser it already holds was
\* launched with it.
C12_EffectiveDebugFlagPerCall ==
  [][\A p \in Callers, options \in CallOptions :
       CreateOrGetInstanceWith(p, options) =>
         /\ svcDebug'[instance'] = ConstructedDebugMode(options)
         /\ svcBrowser[instance'] # 0 =>
              brHeadless[svcBrowser[instance']] = ~ConstructedDebugMode(options)]_vars

\* C13: a fetch whose call has disableMedia = true has its image, stylesheet,
\* font and media requests aborted, and a fetch whose call has disableMedia =
\* false has every request passed through: the route in force on the context of
\* the page a call fetches on is the one its own option asks for, for each call
\* of a sequence sharing the context.
C13_MediaHandlingPerCall ==
  \A p \in Callers :
    (cPc[p] = "page" /\ ctxOwner[cOn[p]] \in openBrowsers) =>
       (ctxRoute[cOn[p]] = "blocking" <=> cOpts[p].disableMedia)

\* C14: fetch_urls acquires its browser and context through the session
\* manager, so that a following fetch_urls call finds them and launches
\* nothing: the browser a call works on is the one the singleton holds, and it
\* is still open when the call has returned.
C14_BatchBrowserFromSessionManager ==
  /\ bBrowser = "open" => (instance # 0 /\ svcBrowser[instance] \in openBrowsers)
  /\ bPc = "returned" => bBrowser = "open"

\* C15: with waitForNavigation = true, when the timer or the navigation wait
\* rejects, the unit reports no error: it goes on to the title read with
\* nothing recorded as thrown, and if nothing is thrown afterwards and the
\* markup is not empty it returns success = true with the title and the
\* processed markup the page holds at that time.
C15_NavigationTimeoutIsNoError ==
  [][\A i \in Tasks :
       /\ (tPc[i] = "waitNav" /\ tNav'[i] \in {"timer", "rejected"}) =>
            /\ tPc'[i] = "title"
            /\ tFault'[i] = NoFault
            /\ tOut'[i] = NoOut
       /\ (tNav[i] \in {"timer", "rejected"} /\ Finished(i)' /\ tFault'[i] = NoFault) =>
            /\ ~tOut'[i].raised
            /\ tOut'[i].result.success
            /\ tOut'[i].result.error = <<>>
            /\ \E html \in Docs \ {EmptyHtml} :
                 tOut'[i].result =
                   SuccessResult(TitleOf(UrlAt(i)), UrlAt(i), processContent(html, bOptions))]_vars

\* The timer of the race has fired with no navigation seen, the title has been
\* read after it, and the markup read is pending on the open browser.
C15_Witness ==
  \E i \in 1..N :
    /\ bOptions.waitForNavigation
    /\ tNav[i] = "timer"
    /\ tPc[i] = "content"
    /\ tFault[i] = NoFault
    /\ bBrowser = "open"

\* C16: a fetch_url call whose url is missing or empty, and a fetch_urls call
\* whose urls is missing, not an array or empty, raises the parameter error
\* with no browser launched, no context created and no page opened.
C16_ParameterErrorBeforeBrowserWork ==
  /\ (bPc # "idle" /\ (bArgs.urls.kind # "array" \/ bArgs.urls.list = <<>>)) =>
       /\ bPc = "raised"
       /\ bRaise = "param"
       /\ bBrowser = "none"
       /\ \A i \in Tasks : tPc[i] = "unused" /\ tPage[i] = "none"
  /\ (uPc # "idle" /\ uArg \in {JsUndefined, JsStr("")}) =>
       /\ uPc = "raised"
       /\ uBrowser = "none"
       /\ uPage = "none"

\* fetch_urls was called with an empty array and has raised.
C16_Witness ==
  /\ bPc = "raised"
  /\ bRaise = "param"
  /\ bArgs.urls.kind = "array"
  /\ bArgs.urls.list = <<>>
  /\ bBrowser = "none"

\* An argument that is absent or is no positive number.
NoPositiveNumber(v) == ToNumber(v).nan \/ ToNumber(v).n <= 0

\* C17: the options fetch_urls derives have timeout > 0, navigationTimeout > 0
\* and maxLength >= 0, a numeric argument that is absent, non-numeric, zero or
\* negative being replaced by its default (30000, 10000, 0).
C17_NumericOptionsInRange ==
  bPc = "options" =>
    /\ bOptions.timeout > 0
    /\ bOptions.navigationTimeout > 0
    /\ bOptions.maxLength >= 0
    /\ NoPositiveNumber(bArgs.timeout) => bOptions.timeout = 30000
    /\ NoPositiveNumber(bArgs.navigationTimeout) => bOptions.navigationTimeout = 10000
    /\ NoPositiveNumber(bArgs.maxLength) => bOptions.maxLength = 0

\* C18: a waitUntil argument that is not one of the four allowed values falls
\* back to the default wait condition: the derived waitUntil, which is what
\* page.goto is given, is always an allowed value, and is "load" unless the
\* argument is an allowed value.
WaitConditions == {"load", "domcontentloaded", "networkidle", "commit"}

C18_WaitUntilFallsBack ==
  bPc = "options" =>
    /\ bOptions.waitUntil \in WaitConditions
    /\ (bArgs.waitUntil.kind # "string" \/ bArgs.waitUntil.s \notin WaitConditions) =>
         bOptions.waitUntil = "load"

\* C19: an absent option gets its default (timeout 30000, extractContent true,
\* maxLength 0, returnHtml false, waitForNavigation false, navigationTimeout
\* 10000, disableMedia true); extractContent and disableMedia are false only
\* for the argument value false, returnHtml and waitForNavigation true only
\* for the argument value true.
C19_DefaultsAndFlags ==
  bPc = "options" =>
    /\ bArgs.timeout = JsUndefined => bOptions.timeout = 30000
    /\ bArgs.maxLength = JsUndefined => bOptions.maxLength = 0
    /\ bArgs.navigationTimeout = JsUndefined => bOptions.navigationTimeout = 10000
    /\ ~bOptions.extractContent <=> bArgs.extractContent = JsBool(FALSE)
    /\ ~bOptions.disableMedia <=> bArgs.disableMedia = JsBool(FALSE)
    /\ bOptions.returnHtml <=> bArgs.returnHtml = JsBool(TRUE)
    /\ bOptions.waitForNavigation <=> bArgs.waitForNavigation = JsBool(TRUE)

\* Options derived from arguments with timeout and disableMedia absent,
\* extractContent false, and the text "true" for returnHtml.
C19_Witness ==
  /\ bPc = "options"
  /\ bArgs.timeout = JsUndefined
  /\ bArgs.disableMedia = JsUndefined
  /\ bArgs.extractContent = JsBool(FALSE)
  /\ bArgs.returnHtml = JsStr("true")
  /\ bOptions.timeout = 30000
  /\ bOptions.disableMedia
  /\ ~bOptions.extractContent
  /\ ~bOptions.returnHtml

\* The text that extraction and conversion make of a markup: the article where
\* extraction is asked for and finds one, else the whole markup, converted to
\* text unless the markup itself is to be returned.
ExtractedAndConverted(html, options) ==
  LET chosen == IF options.extractContent /\ Readability(html) # <<>>
                THEN Readability(html)[1] ELSE html
  IN  IF options.returnHtml THEN chosen ELSE Turndown(chosen)

\* C20: the pipeline truncates last, on the text that results from extraction
\* and conversion: with maxLength > 0 and that text longer than maxLength the
\* output is exactly its first maxLength characters, otherwise the output is
\* that text unchanged.
C20_TruncatesLast ==
  pOut # NotProcessed =>
    LET text == ExtractedAndConverted(pHtml, pOptions)
        maxLength == pOptions.maxLength
    IN  IF maxLength > 0 /\ Len(text) > maxLength
        THEN /\ Len(pOut) = maxLength
             /\ \A k \in 1..maxLength : pOut[k] = text[k]
        ELSE pOut = text

\* A markup whose article, converted to text, is longer than maxLength and has
\* been cut to it, while the markup itself starts with other material.
C20_Witness ==
  /\ pOut # NotProcessed
  /\ pOptions.extractContent
  /\ ~pOptions.returnHtml
  /\ pOptions.maxLength = 1
  /\ pHtml = <<"<p>", "x", "y", "</p>">>
  /\ pOut = <<"x">>

\* C21: with maxLength > 0 the content of the FetchResult that a fetch of one
\* URL returns is at most maxLength characters long.
C21_ContentWithinMaxLength ==
  (pUnit # NoOut /\ pOptions.maxLength > 0) =>
     Len(pUnit.result.content) <= pOptions.maxLength

\* The first n characters of a text, the whole text for n = 0.
FirstChars(text, n) == IF n > 0 /\ Len(text) > n THEN SubSeq(text, 1, n) ELSE text

\* C22: with extractContent = true and a markup in which readability finds no
\* article, the pipeline goes on with the unmodified full markup and returns a
\* string, and the fetch result around it is success = true with that string
\* under its header, not an error.
C22_NoArticleFallsBackToMarkup ==
  (/\ pUnit # NoOut
   /\ pFault = NoThrow
   /\ pHtml # EmptyHtml
   /\ pOptions.extractContent
   /\ Readability(pHtml) = <<>>) =>
     /\ pOut = FirstChars(IF pOptions.returnHtml THEN pHtml ELSE Turndown(pHtml),
                          pOptions.maxLength)
     /\ ~pUnit.raised
     /\ pUnit.result.success
     /\ pUnit.result.error = <<>>
     /\ SubSeq(pUnit.result.content, 6, Len(pUnit.result.content)) = pOut

\* A page without an article was fetched with extraction asked for and the
\* markup to be returned: the result is a success carrying the whole markup.
C22_Witness ==
  /\ pUnit # NoOut
  /\ pFault = NoThrow
  /\ pOptions.extractContent
  /\ pOptions.returnHtml
  /\ pOptions.maxLength = 0
  /\ pHtml = <<"<div>", "x">>
  /\ Readability(pHtml) = <<>>
  /\ pUnit.result.success
  /\ pOut = pHtml

\* The markup the pipeline works on: the article where extraction is asked for
\* and finds one, the full page markup otherwise.
ChosenMarkup(html, options) ==
  IF options.extractContent /\ Readability(html) # <<>> THEN Readability(html)[1] ELSE html

\* C23: the pipeline follows the options exactly. With extractContent = false
\* the extractor is not run and the full page markup is the content; with
\* returnHtml = true the converter is not run and the untruncated output equals
\* the extracted or full markup; with returnHtml = false the converter is
\* applied exactly once to that content.
C23_PipelineFollowsOptions ==
  pOut # NotProcessed =>
    /\ ~pOptions.extractContent =>
         /\ pCalls.readability = 0
         /\ ChosenMarkup(pHtml, pOptions) = pHtml
    /\ pOptions.extractContent => pCalls.readability = 1
    /\ pOptions.returnHtml =>
         /\ pCalls.turndown = 0
         /\ pOptions.maxLength = 0 => pOut = ChosenMarkup(pHtml, pOptions)
    /\ ~pOptions.returnHtml =>
         /\ pCalls.turndown = 1
         /\ pOptions.maxLength = 0 => pOut = Turndown(ChosenMarkup(pHtml, pOptions))
    /\ (~pOptions.extractContent /\ pOptions.maxLength = 0) =>
         pOut = (IF pOptions.returnHtml THEN pHtml ELSE Turndown(pHtml))

\* A markup that has an article was processed with neither extraction nor
\* conversion: no collaborator ran and the output is the whole markup.
C23_Witness ==
  /\ pOut # NotProcessed
  /\ ~pOptions.extractContent
  /\ pOptions.returnHtml
  /\ pOptions.maxLength = 0
  /\ pHtml = <<"y", "<p>", "x", "</p>">>
  /\ Readability(pHtml) # <<>>
  /\ pCalls = NoCalls
  /\ pOut = pHtml

\* C24: every success = true result has as content the four-line header
\* (`Title: <page title>`, `URL: <requested url>`, `Content:`, blank line)
\* followed by the pipeline output for the page's markup, the URL line carrying
\* the url the caller supplied.
C24_SuccessTemplate ==
  (pUnit # NoOut /\ pUnit.result.success) =>
     /\ ~pUnit.raised
     /\ pFault = NoThrow
     /\ pOut = processContent(pHtml, pOptions)
     /\ pUnit.result.content =
          <<"Title: ", TitleOf(pUrl), "\nURL: ", pUrl, "\nContent:\n\n">> \o pOut

\* The page at url "b" was fetched and its article, as text, sits under the
\* header with that url.
C24_Witness ==
  /\ pUnit # NoOut
  /\ pUnit.result.success
  /\ pUrl = "b"
  /\ pHtml = <<"y", "<p>", "x", "</p>">>
  /\ pOptions.extractContent /\ ~pOptions.returnHtml /\ pOptions.maxLength = 0
  /\ pUnit.result.content =
       <<"Title: ", "title-of-b", "\nURL: ", "b", "\nContent:\n\n", "x">>

\* C25: every failed fetch, the empty-markup case included, returns (does not
\* raise) success = false with a body made of `Title: Error`, the `URL:` line
\* of the requested url, `Content:` and an inline <error> annotation with the
\* failure's message; for empty markup the content pipeline is not run.
C25_FailureTemplate ==
  pUnit # NoOut =>
    /\ (pFault # NoThrow \/ pHtml = EmptyHtml) <=> ~pUnit.result.success
    /\ ~pUnit.result.success =>
         /\ ~pUnit.raised
         /\ Len(pUnit.result.error) = 1
         /\ pUnit.result.error[1] =
              (IF pFault = NoThrow THEN "Browser returned empty content"
                                   ELSE ErrorMessage(pFault))
         /\ pUnit.result.content =
              <<"Title: Error\nURL: ", pUrl,
                "\nContent:\n\n<error>Failed to retrieve web page content: ",
                pUnit.result.error[1], "</error>">>
    /\ (pFault = NoThrow /\ pHtml = EmptyHtml) =>
         /\ pCalls = NoCalls
         /\ pOut = NotProcessed

\* page.content() gave empty markup for url "a": a failure body is returned
\* and no collaborator of the pipeline was called.
C25_Witness ==
  /\ pUnit # NoOut
  /\ pFault = NoThrow
  /\ pHtml = EmptyHtml
  /\ pUrl = "a"
  /\ ~pUnit.result.success
  /\ pUnit.result.error = <<"Browser returned empty content">>
  /\ pCalls = NoCalls

\* C26: with the debug flag off, every page fetch_urls creates is closed after
\* its result has been captured and before fetch_urls returns, and the browser
\* is closed before fetch_urls returns or raises; no page is closed, by its
\* own close or by the close of the browser, before its unit has produced its
\* result. (A close that is performed and fails counts as performed.)
C26_ClosedAfterResultBeforeReturn ==
  [][~isDebugMode =>
       /\ \A i \in Tasks :
            (tPage[i] = "open" /\ tPage'[i] = "closed") => tOut[i] # NoOut
       /\ (bBrowser = "open" /\ bBrowser' = "closed") =>
            \A i \in 1..N : tPage[i] = "open" => tOut[i] # NoOut
       /\ (bPc # "returned" /\ bPc' = "returned") =>
            /\ bPc = "close"
            /\ \A i \in 1..N : tPc[i] = "settled"
       /\ (bPc # "raised" /\ bPc' = "raised" /\ bBrowser # "none") => bPc = "close"]_vars

\* C27: when the effective debug flag of a fetch_urls call (the call's debug
\* option if given, else the process-wide flag) is on, fetch_urls closes no
\* page it created and does not close the browser; when it is off, every
\* task closes its page before it settles and the browser is closed before
\* the call ends.
EffectiveDebug(args) ==
  IF args.debug.kind = "undefined" THEN isDebugMode ELSE Truthy(args.debug)

C27_TeardownFollowsEffectiveDebugFlag ==
  [][IF EffectiveDebug(bArgs)
     THEN /\ \A i \in Tasks : tPc'[i] # "closePage"
          /\ bPc' # "close"
     ELSE /\ \A i \in Tasks :
               (tPc[i] # "settled" /\ tPc'[i] = "settled") => tPc[i] = "closePage"
          /\ (bPc \notin {"returned", "raised"} /\ bPc' \in {"returned", "raised"}
                /\ bBrowser # "none") => bPc = "close"]_vars

\* C28: a failure while closing a page is logged and never re-thrown.
\* closePage never raises, with a null page it does nothing, and a failed
\* close makes it log and return; in fetch_urls a task that has closed its
\* page, whether the close failed or not, fulfils with the result its unit
\* produced, and a batch whose tasks have all fulfilled returns the text
\* combined from those results.
C28_PageCloseFailureSwallowed ==
  [][/\ kPc' # "raised"
     /\ (kPc = "idle" /\ kPc' # "idle" /\ kPage' = "null") =>
          (kPc' = "returned" /\ ~kLogged')
     /\ (kPc = "closing" /\ kPc' # "closing") => kPc' = "returned"
     /\ \A i \in Tasks :
          (tPc[i] = "closePage" /\ tPc'[i] # "closePage") =>
            /\ tPc'[i] = "settled"
            /\ tResult'[i] = tResult[i]
            /\ tResult'[i].index = i - 1
            /\ tOut'[i] = tOut[i]
            /\ (bPc = "all" /\ \A j \in 1..N : tPc'[j] = "settled") =>
                 /\ bRaise' = "none"
                 /\ bPc' = "close"
                 /\ bOutput' = CombinedResults([j \in 1..N |-> tResult[j]])]_vars

\* Both closes failed: closePage logged and returned, and a batch returned
\* although the close of the page of its first url failed.
C28_Witness ==
  /\ kPc = "returned" /\ kLogged /\ kPage = "open"
  /\ ~isDebugMode /\ bPc = "returned" /\ N = 2
  /\ tPage[1] = "open" /\ tPage[2] = "closed"
  /\ tResult[1].success

\* C29: a failure while closing the browser in cleanup() is logged only.
\* Whether the close fulfilled or rejected, the cleanup step that follows it
\* clears the browser reference of the service and the singleton, and the
\* close_browser call ends with its confirmation text.
C29_BrowserCloseFailureSwallowed ==
  [][\A p \in Callers :
       (cPc[p] = "closing" /\ cPc'[p] # "closing") =>
         /\ svcBrowser'[cSvc[p]] = 0
         /\ instance' = 0
         /\ lastClose' = ClosedText
         /\ cPc'[p] = "idle"]_vars

\* The only browser ever launched is still open, no service refers to it, no
\* call is in flight and close_browser has confirmed: its close failed.
C29_Witness ==
  /\ launched = 1 /\ openBrowsers = {1}
  /\ \A s \in Services : svcBrowser[s] = 0
  /\ instance = 0
  /\ \A p \in Callers : cPc[p] = "idle"
  /\ lastClose = ClosedText

\* C30: in a batch exactly one fresh page is created per url and each page
\* is touched only by the task of its own url, in every interleaving: the
\* page of a task changes only in a step of that task, it is created once
\* (from no page, at the task's newPage step), tasks beyond the url list have
\* no page, and when the batch returns every url's task has had its page.
C30_OnePagePerUrlOwnedByItsTask ==
  [][/\ \A j \in Tasks :
          /\ tPage'[j] # tPage[j] =>
               (tPc[j] \in {"newPage", "closePage"} /\ tPc'[j] # tPc[j])
          /\ (tPage[j] # "open" /\ tPage'[j] = "open") =>
               (tPage[j] = "none" /\ tPc[j] = "newPage")
          /\ (tPc[j] = "unused" /\ tPc'[j] = "unused") => tPage'[j] = "none"
     /\ bPc' = "returned" => \A j \in 1..N : tPage'[j] # "none"]_vars

\* A batch of two urls returned after its tasks interleaved, each with its
\* own page closed.
C30_Witness ==
  /\ bPc = "returned" /\ N = 2 /\ reordered
  /\ tPage[1] = "closed" /\ tPage[2] = "closed"

\* C31: the window size passed when the browser is launched is the viewport
\* of the context created in that browser, the same width and height.
C31_WindowSizeIsContextViewport ==
  wPc = "context" => wWindow = wViewport

\* C32: in fetch_urls browser.close() is issued only after every per-url
\* task of the batch has settled (fulfilled or rejected), also when a task
\* failed to create its page; the browser is never closed under a task that
\* has started and is still running.
C32_BrowserClosedAfterAllTasks ==
  (bPc = "close" \/ bBrowser = "closed") =>
    \A i \in 1..N : tPc[i] \in {"unused", "settled", "rejected"}

\* C33: when close_browser returns its success confirmation while no
\* fetch_urls call is running, no browser launched by this server is open any
\* more: neither one launched through the BrowserService nor the browser of
\* an earlier fetch_urls call, with the debug flag on or off.
C33_NoBrowserOpenAfterConfirmedClose ==
  [][(/\ lastClose # ClosedText
      /\ lastClose' = ClosedText
      /\ bPc' \in {"idle", "returned", "raised"})
       => (openBrowsers' = {} /\ bBrowser' # "open")]_vars

\* C34: close_browser returns "Storage state saved and Browser closed
\* successfully." only when cleanup() wrote the session state of a context
\* and closed a browser: the confirmation appears only at the end of a
\* cleanup whose service held a context and whose browser was open and is
\* closed by it, never for a service without a browser or without a context.
C34_ConfirmationOnlyAfterSaveAndClose ==
  [][(lastClose # ClosedText /\ lastClose' = ClosedText) =>
       /\ cPc[Sequential] = "closing"
       /\ svcContext[cSvc[Sequential]] # 0
       /\ cOn[Sequential] \in openBrowsers
       /\ cOn[Sequential] \notin openBrowsers']_vars

C36_SaveFailureStillCloses ==
  [][(cPc[Sequential] = "saving" /\ cPc'[Sequential] = "idle") =>
       /\ svcBrowser[cSvc[Sequential]] \notin openBrowsers'
       /\ svcBrowser'[cSvc[Sequential]] = 0
       /\ instance' = 0]_vars

\* C37: in the navigation race the branch that settles after the race is
\* decided has no effect: its step leaves the outcome of the race, the
\* position of the call and the FetchResult as they are; the call never
\* raises, and no rejection is left without a handler.
C37_LosingBranchHasNoEffect ==
  [][/\ (rWinner # "none" /\ (rNav' # rNav \/ rTimer' # rTimer)) =>
          /\ rWinner' = rWinner
          /\ rPc' = rPc
          /\ rResult' = rResult
     /\ rPc' # "raised"
     /\ ~rUnhandled']_vars

\* The call returned a success result after a navigation was seen, and the
\* timer has fired since.
C37_Witness ==
  /\ rPc = "returned"
  /\ rWinner = "navigated"
  /\ rTimer = "rejected"
  /\ rResult.result.success

\* C38: in the fetch_urls handler of index.ts every task pushes exactly one
\* entry on every path: an index never has two entries, a task has its entry
\* exactly when it has passed its result, so once all tasks have settled the
\* array has one entry per input index; and the browser is closed only after
\* every task has settled.
EntriesOf(i) == {k \in 1..Len(hResults) : hResults[k].index = i - 1}

C38_OneEntryPerTaskThenClose ==
  /\ \A i \in Tasks :
       /\ Cardinality(EntriesOf(i)) <= 1
       /\ (EntriesOf(i) # {}) <=> (fetchTasks[i] \in {"closePage", "done"})
       /\ \A k \in EntriesOf(i) : hResults[k].url = hUrls[i]
  /\ (hPc \in {"close", "closeError", "returned"} \/ hBrowser = "closed") =>
       /\ \A i \in 1..Len(hUrls) : fetchTasks[i] = "done"
       /\ Len(hResults) = Len(hUrls)
  /\ hPc # "closeError"

\* Two tasks have settled, the second first: its tab could not be created,
\* the first fetched its page; the browser is about to be closed.
C38_Witness ==
  /\ hPc = "close"
  /\ Len(hResults) = 2
  /\ hResults[1].index = 1 /\ hResults[1].kind = "tab"
  /\ hResults[2].index = 0 /\ hResults[2].success

\* C39: when every browser operation eventually completes or fails, a
\* fetch_urls call that has started eventually returns or raises, a
\* processPageContent call that has started eventually hands back its
\* FetchResult, and a unit waiting in the navigation race eventually goes on
\* to the title read, also when no navigation is ever seen.
C39_CallsTerminate ==
  /\ (bPc \notin {"idle", "returned", "raised"}) ~> (bPc \in {"returned", "raised"})
  /\ \A i \in Tasks :
       (tPc[i] \in {"goto", "waitNav", "title", "content"}) ~> Finished(i)
  /\ \A i \in Tasks : (tPc[i] = "waitNav") ~> (tPc[i] = "title")

\* A call with waitForNavigation = true is waiting for its tasks, and the
\* unit of one of them has left the navigation race through its timer, no
\* navigation having been seen, and stands at the title read.
C39_Witness ==
  /\ bPc = "all" /\ bOptions.waitForNavigation
  /\ \E i \in 1..N : tPc[i] = "title" /\ tNav[i] = "timer" /\ tOut[i] = NoOut

====
